---- MODULE Spec2Model ----
(***************************************************************************)
(* "Where is my draw?" (baldurk/renderdoc-contrib): the Analysis walk of   *)
(* analyse.py, the analyse_draw entry point and the Window of window.py    *)
(* that starts an analysis and receives its trail.                         *)
(*                                                                         *)
(* The replay API is the environment.  Every answer it gives (the pipeline *)
(* snapshot, overlay min/max, histograms, pixel history, buffer contents)  *)
(* is a field of the capture `cap`, chosen when the capture is loaded, so  *)
(* that a second analysis of the same event gets the same answers.  The    *)
(* only choice made during a run is the order of random.shuffle.  Floats   *)
(* are integers in tenths (1.0 == 10).                                     *)
(***************************************************************************)
EXTENDS Integers, Sequences, FiniteSets, TLC

\* ---------------------------------------------------------------- bounds
MaxEvent == 3
MaxTargets == 2
MaxSamples == 2
\* analyses started and not yet shown by the window
MaxInFlight == 1
\* the same, where the window is followed through overlapping analyses
MaxPending == 2
NumPixels == 2
\* the most pixels a draw covers
MaxCovered == 6

\* event ids start at 1; event 1 is a clear, the later events are draws
Events == 1..MaxEvent
\* draw.flags & rd.ActionFlags.Drawcall
IsDraw(e) == e >= 2

\* resource ids: 0 is ResourceId.Null(), colour target i is i, depth follows
NullRes == 0
DepthRes == MaxTargets + 1

\* ------------------------------------------------------------ ResultStep
NullTex == [resourceId |-> NullRes, overlay |-> "NoOverlay", sample |-> 0, bg |-> "none"]
NoHistory == [id |-> NullRes, x |-> 0, last_eid |-> 0, history |-> <<>>]

\* a step that keeps the caller's display object instead of a copy of it: its
\* overlay is whatever the shared display shows when the step is read
ResultStepShared(msg, args, tex, stage, mesh, ph) ==
    [msg |-> msg, args |-> args, tex_display |-> [tex EXCEPT !.overlay = "Shared"],
     pipe_stage |-> stage, mesh_view |-> mesh, pixel_history |-> ph]
\* the step holds rd.TextureDisplay(tex_display), a copy of the display as it
\* is when the step is created
ResultStep(msg, args, tex, stage, mesh, ph) ==
    [msg |-> msg, args |-> args, tex_display |-> tex, pipe_stage |-> stage,
     mesh_view |-> mesh, pixel_history |-> ph]

Note(msg) == ResultStep(msg, <<>>, NullTex, "ComputeShader", "Count", NoHistory)
TexStep(msg, tex) == ResultStep(msg, <<>>, tex, "ComputeShader", "Count", NoHistory)
StageStep(msg, stage) == ResultStep(msg, <<>>, NullTex, stage, "Count", NoHistory)
MeshStep(msg, mesh) == ResultStep(msg, <<>>, NullTex, "ComputeShader", mesh, NoHistory)

\* has_details without the mesh stage
has_details_no_mesh(step) ==
    \/ step.tex_display.resourceId # NullRes
    \/ step.pixel_history.id # NullRes
    \/ step.pipe_stage # "ComputeShader"
has_details(step) ==
    \/ step.tex_display.resourceId # NullRes
    \/ step.pixel_history.id # NullRes
    \/ step.pipe_stage # "ComputeShader"
    \/ step.mesh_view # "Count"

\* refresh_result: the enabled state of 'Show More Info' for 0-based index
\* cur of trail res; with an empty trail the button is left as it is, and an
\* index out of range shows a default ResultStep()
refresh_result(res, cur, enabled) ==
    IF res = <<>> THEN enabled
    ELSE has_details(IF cur \in 0..(Len(res) - 1) THEN res[cur + 1] ELSE Note(""))

\* goto_details: the viewer the step is routed to, "none" when every test
\* falls through
DetailsViewer(step) ==
    IF step.pipe_stage # "ComputeShader" THEN "pipeline"
    ELSE IF step.tex_display.resourceId # NullRes THEN "texture"
    ELSE IF step.mesh_view # "Count" THEN "mesh"
    ELSE IF step.pixel_history.id # NullRes THEN "history"
    ELSE "none"

\* ------------------------------------------- control flow of the checkers
\* A checker is a function of the answers it reads.  Its outcome: the steps
\* it appends, how it ends ("return", "raise" of AnalysisFinished, "fault"
\* for any other exception), the checkers that ran, the oracle queries it
\* issued, and raisedAt: the number of steps appended when AnalysisFinished
\* was first raised (-1 when it never was).
Outcome(steps, end, ran, q, raisedAt) ==
    [steps |-> steps, end |-> end, ran |-> ran, q |-> q, raisedAt |-> raisedAt]

Skip == Outcome(<<>>, "return", <<>>, <<>>, -1)
Add(step) == Outcome(<<step>>, "return", <<>>, <<>>, -1)
RaiseFinished == Outcome(<<>>, "raise", <<>>, <<>>, 0)
Stop(step) == Outcome(<<step>>, "raise", <<>>, <<>>, 1)
Fault == Outcome(<<>>, "fault", <<>>, <<>>, -1)
Enter(name) == Outcome(<<>>, "return", <<name>>, <<>>, -1)
\* an oracle query (or a seek) issued while the replay is at event `at`
Query(kind, at) == Outcome(<<>>, "return", <<>>, <<[kind |-> kind, at |-> at]>>, -1)

\* a; b
Then(a, b) ==
    IF a.end # "return" THEN a
    ELSE Outcome(a.steps \o b.steps, b.end, a.ran \o b.ran, a.q \o b.q,
                 IF a.raisedAt >= 0 THEN a.raisedAt
                 ELSE IF b.raisedAt >= 0 THEN Len(a.steps) + b.raisedAt ELSE -1)

\* try: a  except AnalysisFinished: pass
CatchFinished(a) == IF a.end = "raise" THEN [a EXCEPT !.end = "return"] ELSE a

\* ------------------------------------------------------------- snapshot
APIs == {"OpenGL", "Vulkan", "D3D11", "D3D12"}
IsD3D(api) == api \in {"D3D11", "D3D12"}

\* the snapshot with the OpenGL state populated whatever the API
PipelineStatesGL(api) == [a \in APIs |-> IF a = "OpenGL" THEN "populated" ELSE "None"]
\* glpipe, vkpipe, d3d11pipe, d3d12pipe after the snapshot: None unless the
\* API selects them
PipelineStates(api) == [a \in APIs |-> IF a = api THEN "populated" ELSE "None"]
\* the if/elif chain on self.api and the backend state its branch reads
ApiChain(api) ==
    IF api = "OpenGL" THEN {"OpenGL"}
    ELSE IF api = "Vulkan" THEN {"Vulkan"}
    ELSE IF api = "D3D11" THEN {"D3D11"}
    ELSE IF api = "D3D12" THEN {"D3D12"}
    ELSE {}
\* the backend states a checker dereferences: check_offscreen reads the render
\* area under api == Vulkan and the discard flags under 'is not None';
\* check_previous_depth_stencil fetches its own OpenGL state and reads none
BackendReads(name, api, pipes) ==
    IF name = "check_onscreen" THEN ApiChain(api)
    ELSE IF name = "check_offscreen"
    THEN (IF api = "Vulkan" THEN {"Vulkan"} ELSE {})
         \cup {a \in {"OpenGL", "Vulkan"} : pipes[a] # "None"}
    ELSE IF name \in {"check_failed_backface_culling", "check_failed_depth",
                      "check_failed_stencil"}
    THEN ApiChain(api)
    ELSE {}

\* a non-finite float (inf or nan)
NonFinite == 32767 * 32767
isfinite(x) == x # NonFinite /\ x # -NonFinite

Min(S) == CHOOSE x \in S : \A y \in S : x <= y
Max(S) == CHOOSE x \in S : \A y \in S : x >= y
Range(s) == {s[i] : i \in 1..Len(s)}

RECURSIVE SelectSeq2(_, _)
\* [e for e in s if Keep[e]] with the test given as a set of kept indices
SelectSeq2(s, keep) ==
    IF s = <<>> THEN <<>>
    ELSE LET n == Len(s)
             rest == SelectSeq2(SubSeq(s, 1, n - 1), keep)
         IN IF n \in keep THEN Append(rest, s[n]) ELSE rest

\* vert_ndc: (x/w, y/w, z/w) of every gathered position with w != 0
FDiv(a, w) == IF isfinite(a) THEN a \div w ELSE a
NdcOf(vert) == <<FDiv(vert[1], vert[4]), FDiv(vert[2], vert[4]), FDiv(vert[3], vert[4])>>
vert_ndc_of(postvs_positions) ==
    LET kept == SelectSeq2(postvs_positions,
                           {i \in 1..Len(postvs_positions) : postvs_positions[i][4] # 0})
    IN [i \in 1..Len(kept) |-> NdcOf(kept[i])]

\* list(filter(math.isfinite, [vert[c] for vert in vert_ndc])) as a set of values
FiniteComponent(vert_ndc, c) ==
    {vert_ndc[i][c] : i \in {j \in 1..Len(vert_ndc) : isfinite(vert_ndc[j][c])}}

\* ---------------------------------------------------- check_failed_scissor
check_failed_scissor(v, s) ==
    LET s_right == s.x + s.width
        s_bottom == s.y + s.height
        v_right == v.x + v.width
        v_bottom == v.y + v.height
    IN Then(Enter("check_failed_scissor"),
       IF s.width = 0 \/ s.height = 0
       THEN Stop(ResultStep("ScissorEmpty", <<s.x, s.y, s_right, s_bottom>>, NullTex,
                            "ViewportsScissors", "Count", NoHistory))
       ELSE IF s_right < v.x \/ s.x > v_right \/ s.x > v_right \/ s.y > v_bottom
       THEN Stop(ResultStep("ScissorOutsideViewport",
                            <<s.x, s.y, s_right, s_bottom, v.x, v.y, v_right, v_bottom>>,
                            NullTex, "Rasterizer", "Count", NoHistory))
       ELSE Stop(StageStep("ScissorClipped", "ViewportsScissors")))

\* ------------------------------------------- check_failed_backface_culling
check_failed_backface_culling(tex) ==
    Then(Enter("check_failed_backface_culling"), Stop(TexStep("BackfaceCulled", tex)))

\* ------------------------------------------- check_previous_depth_stencil
\* depth_func is "None" in stencil mode.  p holds the answers the check reads:
\* usage (the depth target's usage list, in event order), clearScissor (GL
\* scissor 0 at the clear), tw/th (target_descs[-1]), clear_color (picked
\* depth, tenths), pixelHistory (API capability), covered (covered pixels in
\* scan order), history (pixel history of the first covered pixel).
PriorClears(usage, eid) ==
    SelectSeq2(usage, {i \in 1..Len(usage) :
                          usage[i].eventId < eid /\ usage[i].usage = "Clear"})

ClearScissorSteps(api, v, s, tw, th, clear_eid) ==
    LET s_right == s.x + s.width
        s_bottom == s.y + s.height
        v_right == v.x + v.width
        v_bottom == v.y + v.height
        a == <<clear_eid, s.x, s.y, s_right, s_bottom>>
    IN IF api = "OpenGL" /\ s.enabled
       THEN Then(IF s.width = 0 \/ s.height = 0
                 THEN Add(ResultStep("ClearScissorEmpty", a, NullTex, "ViewportsScissors",
                                     "Count", NoHistory))
                 ELSE Skip,
                 IF s.x >= tw \/ s.y >= th
                 THEN Add(ResultStep("ClearScissorOutsideTarget", a, NullTex,
                                     "ViewportsScissors", "Count", NoHistory))
                 ELSE IF v.x < s.x \/ v.y < s.y \/ v.x + v_right # 0 \/ v_bottom > s_bottom
                 THEN Add(ResultStep("ClearScissorSmallerThanViewport", a, NullTex,
                                     "ViewportsScissors", "Count", NoHistory))
                 ELSE Skip)
       ELSE Skip

ClearValueChecks(depth_func, v, clear_eid, cc) ==
    LET lo == IF v.minDepth < v.maxDepth THEN v.minDepth ELSE v.maxDepth
        hi == IF v.minDepth > v.maxDepth THEN v.minDepth ELSE v.maxDepth
    IN IF depth_func = "None" THEN Skip
       ELSE IF \/ clear_eid > 0 /\ cc = 10 /\ depth_func = "Greater"
               \/ cc = 0 /\ depth_func = "Less"
       THEN Stop(ResultStep("ClearImpossibleToPass", <<clear_eid, cc>>, NullTex, "DepthTest",
                            "Count", NoHistory))
       ELSE IF clear_eid > 0 /\ (\/ cc >= hi /\ depth_func = "Greater"
                                 \/ cc <= lo /\ depth_func = "Less"
                                 \/ cc > lo /\ depth_func = "GreaterEqual"
                                 \/ cc < lo /\ depth_func = "LessEqual")
       THEN Stop(ResultStep("ClearCantCompare", <<clear_eid, cc, v.minDepth, v.maxDepth>>,
                            NullTex, "DepthTest", "Count", NoHistory))
       ELSE IF \/ clear_eid > 0 /\ cc = 10 /\ depth_func = "GreaterEqual"
               \/ cc = 0 /\ depth_func = "LessEqual"
       THEN Add(ResultStep("ClearUnlikelyToPass", <<clear_eid, cc>>, NullTex, "DepthTest",
                           "Count", NoHistory))
       ELSE Add(ResultStep("ClearReasonable", <<clear_eid, cc>>, NullTex, "ComputeShader",
                           "Count", NoHistory))

PreVal(h, depth_func) == IF depth_func # "None" THEN h.preDepth ELSE h.preStencil
PostVal(h, depth_func) == IF depth_func # "None" THEN h.postDepth ELSE h.postStencil

\* for h in reversed(history): the newest record of another event that passed
\* and wrote the value the draw's first fragment was tested against
last_draw_eid_of(history, eid, depth_func, pre_draw_val) ==
    LET hits == {i \in 1..Len(history) :
                    /\ history[i].eventId # eid
                    /\ history[i].passed
                    /\ PreVal(history[i], depth_func) # pre_draw_val
                    /\ PostVal(history[i], depth_func) = pre_draw_val}
    IN IF hits = {} THEN 0 ELSE history[Max(hits)].eventId

PreviousHistorySteps(eid, depth_func, tex, depthTarget, covered, history) ==
    IF covered = <<>>
    THEN Add(Note("HistoryNoCoveredPixel"))
    ELSE Then(Query("history", eid),
         IF Len(history) = 0 \/ history[Len(history)].eventId # eid \/ history[Len(history)].passed
         THEN Add(ResultStep("HistoryInvalid", <<covered[1]>>, NullTex, "ComputeShader",
                             "Count", NoHistory))
         ELSE LET this_draw == SelectSeq2(history,
                                   {i \in 1..Len(history) : history[i].eventId = eid})
                  pre_draw_val == PreVal(this_draw[1], depth_func)
                  last_draw_eid == last_draw_eid_of(history, eid, depth_func, pre_draw_val)
                  history_package == [id |-> depthTarget, x |-> covered[1],
                                      last_eid |-> last_draw_eid, history |-> history]
              IN \* '{:.4}'.format(pre_draw_val): a float precision on the int stencil value
                 IF depth_func = "None" THEN Fault
                 ELSE IF last_draw_eid > 0
                 THEN Add(ResultStep("HistoryPreviousDraw",
                                     <<covered[1], Len(this_draw), pre_draw_val, last_draw_eid>>,
                                     NullTex, "ComputeShader", "Count", history_package))
                 ELSE Add(ResultStep("HistoryNoPreviousDraw",
                                     <<covered[1], Len(this_draw), pre_draw_val>>,
                                     NullTex, "ComputeShader", "Count", history_package)))

\* the check without SetFrameEvent(self.eid, True) after the clear value is read
check_previous_depth_stencil_stays(eid, depth_func, api, tex, depthBound, v, p) ==
    LET result_stage == IF depth_func # "None" THEN "DepthTest" ELSE "StencilTest"
        usage == PriorClears(p.usage, eid)
        clear_eid == usage[Len(usage)].eventId
    IN Then(Enter("check_previous_depth_stencil"),
       IF ~depthBound THEN Stop(StageStep("NoDepthBuffer", result_stage))
       ELSE
       Then(IF Len(usage) > 0
            THEN Then(Query("seek", clear_eid),
                 Then(ClearScissorSteps(api, v, p.clearScissor, p.tw, p.th, clear_eid),
                 Then(Query("pick", clear_eid),
                      ClearValueChecks(depth_func, v, clear_eid, p.clear_color))))
            ELSE Add(Note("NotCleared")),
       Then(IF p.pixelHistory
            THEN Then(Query("overlay", eid),
                      PreviousHistorySteps(eid, depth_func, tex, DepthRes, p.covered, p.history))
            ELSE Skip,
            Add(TexStep("FailingNormally",
                        [tex EXCEPT !.overlay = IF depth_func # "None" THEN "Depth"
                                                 ELSE "Stencil"])))))
check_previous_depth_stencil(eid, depth_func, api, tex, depthBound, v, p) ==
    LET result_stage == IF depth_func # "None" THEN "DepthTest" ELSE "StencilTest"
        usage == PriorClears(p.usage, eid)
        clear_eid == usage[Len(usage)].eventId
    IN Then(Enter("check_previous_depth_stencil"),
       IF ~depthBound THEN Stop(StageStep("NoDepthBuffer", result_stage))
       ELSE
       Then(IF Len(usage) > 0
            THEN Then(Query("seek", clear_eid),
                 Then(ClearScissorSteps(api, v, p.clearScissor, p.tw, p.th, clear_eid),
                 Then(Query("pick", clear_eid),
                 Then(Query("seek", eid),
                      ClearValueChecks(depth_func, v, clear_eid, p.clear_color)))))
            ELSE Add(Note("NotCleared")),
       Then(IF p.pixelHistory
            THEN Then(Query("overlay", eid),
                      PreviousHistorySteps(eid, depth_func, tex, DepthRes, p.covered, p.history))
            ELSE Skip,
            Add(TexStep("FailingNormally",
                        [tex EXCEPT !.overlay = IF depth_func # "None" THEN "Depth"
                                                 ELSE "Stencil"])))))

\* ------------------------------------------------------ check_failed_depth
\* d is the depth state of the active API: depthEnable, boundsEnable,
\* nearBound, farBound, depthFunction, clamp (GL depthClamp, Vulkan
\* depthClampEnable, D3D depthClip), negOne (GL clipNegativeOneToOne).
DepthBoundsOf(api, d) ==
    IF api # "D3D11" /\ d.boundsEnable THEN <<d.nearBound, d.farBound>> ELSE <<>>
DepthClampOf(api, d) == IF IsD3D(api) THEN ~d.clamp ELSE d.clamp
NdcBoundsOf(api, d) == IF api = "OpenGL" /\ d.negOne THEN <<-10, 10>> ELSE <<0, 10>>

\* vert_bounds = [min(vert_ndc_z), max(vert_ndc_z)]: a ValueError on an empty list
VertBoundsCheck(vert_ndc_z) ==
    IF vert_ndc_z = {} THEN Fault
    ELSE Add(ResultStep("VertexZBounds", <<Min(vert_ndc_z), Max(vert_ndc_z)>>, NullTex,
                        "Rasterizer", "Count", NoHistory))

DepthClipChecks(depth_clamp, ndc_bounds, vert_ndc_z, postvs_stage) ==
    IF ~depth_clamp
    THEN Then(IF Max(vert_ndc_z) < ndc_bounds[1]
              THEN Stop(MeshStep("VerticesBeforeNearPlane", postvs_stage))
              ELSE Add(MeshStep("NearPlanePass", postvs_stage)),
              IF Min(vert_ndc_z) > ndc_bounds[2]
              THEN Stop(MeshStep("VerticesBehindFarPlane", postvs_stage))
              ELSE Add(MeshStep("FarPlanePass", postvs_stage)))
    ELSE Add(Note("DepthClampIgnoresPlanes"))

\* the viewport check firing when the viewport range is not inside the bounds
DepthBoundsContained(depth_bounds, v, vert_ndc_z, postvs_stage) ==
    IF depth_bounds # <<>> /\ (v.minDepth < depth_bounds[1] \/ v.maxDepth > depth_bounds[2])
    THEN Stop(ResultStep("ViewportDepthOutsideBounds",
                         <<v.minDepth, v.maxDepth, depth_bounds[1], depth_bounds[2]>>,
                         NullTex, "ViewportsScissors", "Count", NoHistory))
    ELSE Skip
DepthBoundsChecks(depth_bounds, v, vert_ndc_z, postvs_stage) ==
    Then(IF depth_bounds # <<>> /\ (v.minDepth > depth_bounds[2] \/ v.maxDepth < depth_bounds[1])
         THEN Stop(ResultStep("ViewportDepthOutsideBounds",
                              <<v.minDepth, v.maxDepth, depth_bounds[1], depth_bounds[2]>>,
                              NullTex, "ViewportsScissors", "Count", NoHistory))
         ELSE IF depth_bounds # <<>>
         THEN Add(ResultStep("ViewportDepthWithinBounds",
                             <<v.minDepth, v.maxDepth, depth_bounds[1], depth_bounds[2]>>,
                             NullTex, "ComputeShader", postvs_stage, NoHistory))
         ELSE Skip,
         IF depth_bounds # <<>> /\ (Min(vert_ndc_z) > depth_bounds[2]
                                    \/ Max(vert_ndc_z) < depth_bounds[1])
         THEN Stop(ResultStep("VerticesOutsideBounds", <<depth_bounds[1], depth_bounds[2]>>,
                              NullTex, "Rasterizer", "Count", NoHistory))
         ELSE IF depth_bounds # <<>>
         THEN Add(ResultStep("VerticesWithinBounds", <<v.minDepth, v.maxDepth>>,
                             NullTex, "ComputeShader", postvs_stage, NoHistory))
         ELSE Skip)

\* everything of check_failed_depth before its call of check_previous_depth_stencil
check_failed_depth(api, tex, v, d, vert_ndc, postvs_stage) ==
    LET depth_func == d.depthFunction
        depth_bounds == DepthBoundsOf(api, d)
        vert_ndc_z == FiniteComponent(vert_ndc, 3)
    IN Then(Enter("check_failed_depth"),
       Then(Add(TexStep("DepthOverlayRed", tex)),
       Then(IF depth_func = "Never" THEN Stop(StageStep("DepthNever", "DepthTest")) ELSE Skip,
       Then(VertBoundsCheck(vert_ndc_z),
       Then(DepthClipChecks(DepthClampOf(api, d), NdcBoundsOf(api, d), vert_ndc_z, postvs_stage),
       Then(IF ~d.depthEnable THEN Stop(StageStep("DepthDisabled", "DepthTest")) ELSE Skip,
       Then(DepthBoundsChecks(depth_bounds, v, vert_ndc_z, postvs_stage),
       Then(IF depth_func = "NotEqual"
            THEN Add(StageStep("DepthNotEqualUnusual", "DepthTest")) ELSE Skip,
            IF v.minDepth # 0 \/ v.maxDepth # 10
            THEN Add(ResultStep("ViewportDepthUnusual", <<v.minDepth, v.maxDepth>>, NullTex,
                                "ViewportsScissors", "Count", NoHistory))
            ELSE Add(ResultStep("ViewportDepthNormal", <<v.minDepth, v.maxDepth>>, NullTex,
                                "ViewportsScissors", "Count", NoHistory))))))))))

\* ---------------------------------------------------- check_failed_stencil
RECURSIVE BitAnd(_, _)
BitAnd(a, b) ==
    IF a = 0 \/ b = 0 THEN 0
    ELSE 2 * BitAnd(a \div 2, b \div 2) + (IF a % 2 = 1 /\ b % 2 = 1 THEN 1 ELSE 0)

\* front face state and back face state after the cull mode substitution
\* the front face state read as bound, whatever the cull mode
FrontAsBound(st) == st.front
\* if cull_mode == Front: front = back; elif cull_mode == Back: back = front
EffectiveFront(st) == IF st.cullMode = "Front" THEN st.back ELSE st.front
EffectiveBack(st) == IF st.cullMode = "Back" THEN st.front ELSE st.back

FaceStep(msg, test, face) ==
    ResultStep(msg \o test, <<face.reference, face.compareMask>>, NullTex, "StencilTest",
               "Count", NoHistory)

\* check_faces without the raise when both faces match
check_faces_noted(msg, check_front, check_back, front, back) ==
    IF check_front /\ check_back THEN Add(FaceStep(msg, "/test", front))
    ELSE IF check_front THEN Add(FaceStep(msg, "/back face test", front))
    ELSE IF check_back THEN Add(FaceStep(msg, "/front face test", back))
    ELSE Skip
\* check_front, check_back: check(front), check(back)
check_faces(msg, check_front, check_back, front, back) ==
    IF check_front /\ check_back THEN Stop(FaceStep(msg, "/test", front))
    ELSE IF check_front THEN Add(FaceStep(msg, "/back face test", front))
    ELSE IF check_back THEN Add(FaceStep(msg, "/front face test", back))
    ELSE Skip

IsNever(x) == x.function = "Never"
IsLessGreaterImpossible(x) ==
    \/ x.function = "Less" /\ x.reference = 0
    \/ x.function = "Greater" /\ x.reference = 255
IsEqualImpossible(x) ==
    \/ x.function = "LessEqual" /\ x.reference < 0
    \/ x.function = "GreaterEqual" /\ x.reference > 255
IsMaskedEqual(x) ==
    x.function = "Equal" /\ BitAnd(x.compareMask, x.reference) # x.reference /\ x.reference # 0
IsMaskedGreater(x) == x.function = "Greater" /\ x.compareMask <= x.reference
IsMaskedGreaterEqual(x) == x.function = "GreaterEqual" /\ x.compareMask < x.reference
\* the 'Not Equal' advisory testing for NotEqual: both faces raise inside the try
IsNotEqual(x) == x.function = "NotEqual"
\* the predicate of the 'Not Equal' advisory
IsNotEqualFlag(x) == x.function = "Never"

\* everything of check_failed_stencil before its call of check_previous_depth_stencil
check_failed_stencil(tex, st) ==
    LET front == EffectiveFront(st)
        back == EffectiveBack(st)
    IN Then(Enter("check_failed_stencil"),
       Then(Add(TexStep("StencilOverlayRed", tex)),
       Then(IF ~st.stencilEnable THEN Stop(StageStep("StencilDisabled", "DepthTest")) ELSE Skip,
       Then(check_faces("StencilNever", IsNever(front), IsNever(back), front, back),
       Then(check_faces("StencilLessGreaterImpossible", IsLessGreaterImpossible(front), IsLessGreaterImpossible(back), front, back),
       Then(check_faces("StencilEqualImpossible", IsEqualImpossible(front), IsEqualImpossible(back), front, back),
       Then(check_faces("StencilMaskedEqual", IsMaskedEqual(front), IsMaskedEqual(back), front, back),
       Then(check_faces("StencilMaskedGreater", IsMaskedGreater(front), IsMaskedGreater(back), front, back),
       Then(check_faces("StencilMaskedGreaterEqual", IsMaskedGreaterEqual(front), IsMaskedGreaterEqual(back), front, back),
            CatchFinished(check_faces("StencilNotEqual", IsNotEqualFlag(front), IsNotEqualFlag(back), front, back)))))))))))

\* ----------------------------------------------------- check_invalid_verts
\* 0xFFFFFFFFFFFFFFFF, the byte size of an unbounded binding
Unbounded == NonFinite
\* a restart index mapped to None
NoneIndex == 0 - NonFinite
\* get_buf(...) returning None
NoBuffer == 0 - 1

Least(a, b) == IF a < b THEN a ELSE b
Greatest(a, b) == IF a > b THEN a ELSE b

\* bytes left in a binding: its size, or for an unbounded binding what is left
\* of the buffer after the offset (0 when the buffer is unknown or too short)
AvailableBytes(byteSize, offs, bufLen) ==
    IF byteSize = Unbounded
    THEN IF bufLen = NoBuffer \/ offs > bufLen THEN 0 ELSE bufLen - offs
    ELSE byteSize

\* the indexed branch reporting a missing index buffer without raising
IndexBufferStepsGoesOn(dc, iv) ==
    IF iv.ib.resourceId = NullRes \/ iv.ib.byteStride = 0
    THEN Add(StageStep("IndexedWithoutIndexBuffer", "VertexInput"))
    ELSE Skip
\* the indexed branch up to the fetched, restart-mapped index list
IndexBufferSteps(dc, iv) ==
    LET ib == iv.ib
        ibOffs == ib.byteOffset + dc.indexOffset * ib.byteStride
        ibSize == AvailableBytes(ib.byteSize, ibOffs, iv.ibBufLen)
        ibNeededSize == dc.numIndices * ib.byteStride
    IN IF ib.resourceId = NullRes \/ ib.byteStride = 0
       THEN Stop(StageStep("IndexedWithoutIndexBuffer", "VertexInput"))
       ELSE IF ibSize < ibNeededSize
       THEN Add(ResultStep("IndexBufferTooSmall",
                           <<dc.numIndices, ib.byteStride, ibNeededSize, ibSize>>, NullTex,
                           "VertexInput", "Count", NoHistory))
       ELSE Skip

IndicesOf(dc, iv) ==
    IF dc.indexed
    THEN LET ib == iv.ib
             ibOffs == ib.byteOffset + dc.indexOffset * ib.byteStride
             ibSize == AvailableBytes(ib.byteSize, ibOffs, iv.ibBufLen)
             read_bytes == Least(ibSize, dc.numIndices * ib.byteStride)
             ibdata == IF read_bytes > 0
                       THEN SubSeq(iv.ibdata, 1, Least(Len(iv.ibdata), read_bytes \div ib.byteStride))
                       ELSE <<>>
             count == Least(Len(ibdata), dc.numIndices)
             restart_enabled == iv.restartEnabled /\ iv.strip
         IN [i \in 1..count |->
                IF restart_enabled /\ ibdata[i] = iv.restartIdx THEN NoneIndex
                ELSE ibdata[i] + dc.baseVertex]
    ELSE [i \in 1..dc.numIndices |-> (i - 1) + dc.vertexOffset]

\* max(indices): ValueError on an empty list, TypeError when None meets an int
MaxIndexFaults(indices) ==
    \/ indices = <<>>
    \/ Len(indices) > 1 /\ NoneIndex \in Range(indices)

AttrBound(attr, vbuffers) ==
    /\ attr.vertexBuffer < Len(vbuffers)
    /\ vbuffers[attr.vertexBuffer + 1].resourceId # NullRes

\* the out-of-bounds check of one used attribute
AttrBoundsStep(dc, iv, attr, n, max_index) ==
    LET vb == iv.vbuffers[attr.vertexBuffer + 1]
        avail_bytes == AvailableBytes(vb.byteSize, vb.byteOffset, iv.vbBufLen[attr.vertexBuffer + 1])
        max_inst == Greatest(dc.numInstances - 1, 0)
        max_inst_offs == Greatest(dc.instanceOffset + max_inst, 0)
        max_idx_offs == Greatest(dc.baseVertex + max_index, 0)
    IN IF ~attr.used THEN Skip
       ELSE IF ~AttrBound(attr, iv.vbuffers)
       THEN Add(ResultStep("AttributeWithoutBuffer", <<n, attr.vertexBuffer>>, NullTex,
                           "VertexInput", "Count", NoHistory))
       ELSE IF attr.perInstance
       THEN IF attr.byteOffset + max_inst_offs * vb.byteStride + attr.elemSize > avail_bytes
            THEN Add(ResultStep("PerInstanceAttributeOutOfBounds", <<n, attr.vertexBuffer>>,
                                NullTex, "VertexInput", "Count", NoHistory))
            ELSE Skip
       ELSE IF max_index = NoneIndex THEN Fault
       ELSE IF attr.byteOffset + max_idx_offs * vb.byteStride + attr.elemSize > avail_bytes
            THEN Add(ResultStep("PerVertexAttributeOutOfBounds", <<n, attr.vertexBuffer>>,
                                NullTex, "VertexInput", "Count", NoHistory))
            ELSE Skip

RECURSIVE AttrBoundsLoop(_, _, _, _)
AttrBoundsLoop(dc, iv, n, max_index) ==
    IF n > Len(iv.vsinputs) THEN Skip
    ELSE Then(AttrBoundsStep(dc, iv, iv.vsinputs[n], n, max_index),
              AttrBoundsLoop(dc, iv, n + 1, max_index))

\* a matrix variable is suspicious when no float component is non-zero; the
\* components of a non-float matrix are never looked at
Suspicious(var) ==
    /\ var.rows > 1 /\ var.columns > 1
    /\ (var.type \in {"Float", "Half", "Double"} => var.zero)

\* vsrefl.constantBlocks[i]: i is left over from the loop over vbuffers
ZeroMatrixStep(iv, var) ==
    IF ~Suspicious(var) THEN Skip
    ELSE IF Len(iv.vbuffers) = 0 \/ Len(iv.vbuffers) - 1 >= iv.nConstantBlocks THEN Fault
    ELSE Add(StageStep("AllZeroMatrix", "VertexShader"))

RECURSIVE ZeroMatrixVars(_, _, _)
ZeroMatrixVars(iv, vars, n) ==
    IF n > Len(vars) THEN Skip
    ELSE Then(ZeroMatrixStep(iv, vars[n]), ZeroMatrixVars(iv, vars, n + 1))

RECURSIVE ConstantBlockLoop(_, _)
ConstantBlockLoop(iv, n) ==
    IF n > Len(iv.cblocks) THEN Skip
    ELSE Then(IF iv.cblocks[n].bindArraySize <= 1
              THEN ZeroMatrixVars(iv, iv.cblocks[n].vars, 1) ELSE Skip,
              ConstantBlockLoop(iv, n + 1))

\* while offs + elem_size <= len(data): ...; offs += vb.byteStride
VertBytesHangs(len, elem_size, stride) == stride = 0 /\ elem_size <= len
VertBytesOffsets(len, elem_size, stride) ==
    IF stride = 0 THEN {}
    ELSE {offs \in 0..len : offs % stride = 0 /\ offs + elem_size <= len}

PositionAttrStep(dc, iv, attr, n, max_index) ==
    LET vb == iv.vbuffers[attr.vertexBuffer + 1]
        data == iv.posData[n]
        offsets == VertBytesOffsets(Len(data), attr.elemSize, vb.byteStride)
        vert_bytes == {SubSeq(data, offs + 1, offs + attr.elemSize) : offs \in offsets}
        allZero == \A vb1 \in vert_bytes : \A k \in 1..Len(vb1) : vb1[k] = 0
    IN IF ~attr.used \/ ~attr.pos \/ attr.vertexBuffer >= Len(iv.vbuffers) THEN Skip
       ELSE IF vb.resourceId = NullRes THEN Skip
       ELSE IF attr.perInstance
       THEN Add(ResultStep("PositionAttributePerInstance", <<n>>, NullTex, "VertexInput",
                           "Count", NoHistory))
       ELSE IF max_index = NoneIndex THEN Fault
       ELSE IF VertBytesHangs(Len(data), attr.elemSize, vb.byteStride)
       THEN Outcome(<<>>, "hang", <<>>, <<>>, -1)
       ELSE IF Cardinality(offsets) > 1
       THEN IF allZero
            THEN Add(ResultStep("PositionAttributeAllZero", <<n>>, NullTex, "ComputeShader",
                                "VSIn", NoHistory))
            ELSE IF Cardinality(vert_bytes) <= 1
            THEN Add(ResultStep("PositionAttributeAllIdentical", <<n>>, NullTex,
                                "ComputeShader", "VSIn", NoHistory))
            ELSE Skip
       ELSE Skip

RECURSIVE PositionAttrLoop(_, _, _, _)
PositionAttrLoop(dc, iv, n, max_index) ==
    IF n > Len(iv.vsinputs) THEN Skip
    ELSE Then(PositionAttrStep(dc, iv, iv.vsinputs[n], n, max_index),
              PositionAttrLoop(dc, iv, n + 1, max_index))

check_invalid_verts(dc, iv) ==
    LET indices == IndicesOf(dc, iv)
        max_index == Max(Range(indices))
        body == Then(IF dc.indexed THEN IndexBufferSteps(dc, iv) ELSE Skip,
                Then(IF MaxIndexFaults(indices) THEN Fault ELSE Skip,
                Then(AttrBoundsLoop(dc, iv, 1, max_index),
                Then(ConstantBlockLoop(iv, 1),
                     PositionAttrLoop(dc, iv, 1, max_index)))))
    IN Then(Enter("check_invalid_verts"),
       IF ~iv.vsBound THEN Stop(StageStep("NoVertexShader", "VertexShader"))
       ELSE Then(body,
                 IF body.steps = <<>> THEN Add(Note("NoVertexInputProblems")) ELSE Skip))

\* --------------------------------------------------------- check_offscreen
\* 32767.0 / 10.0, in tenths
GuardBandTenth == 32767
Abs(x) == IF x < 0 THEN 0 - x ELSE x

\* os: tw/th (target_descs[0]), renderArea and discard (Vulkan/GL state),
\* vsrefl, dsrefl, gsrefl ("None", "NoPosition" or "Position": whether the
\* reflection exists and its output signature has the position builtin)
LastRefl(os) ==
    IF os.gsrefl # "None" THEN os.gsrefl
    ELSE IF os.dsrefl # "None" THEN os.dsrefl ELSE os.vsrefl

ViewportSteps(v, os) ==
    IF v.width <= 1 \/ Abs(v.height) <= 1
    THEN Stop(ResultStep("ViewportDegenerate", <<v.width, v.height>>, NullTex,
                         "ViewportsScissors", "Count", NoHistory))
    ELSE IF v.x >= os.tw \/ v.y >= os.th
    THEN Stop(ResultStep("ViewportOutOfBounds", <<v.x, v.y, os.tw, os.th>>, NullTex,
                         "ViewportsScissors", "Count", NoHistory))
    ELSE Add(ResultStep("ViewportNormal", <<v.width, v.height, v.x, v.y>>, NullTex,
                        "ViewportsScissors", "Count", NoHistory))

RasterStateSteps(api, os) ==
    Then(IF api = "Vulkan"
         THEN IF os.renderArea.width = 0 \/ os.renderArea.height = 0
              THEN Stop(StageStep("RenderAreaEmpty", "ViewportsScissors"))
              ELSE Add(StageStep("RenderAreaFine", "Rasterizer"))
         ELSE Skip,
         IF api \in {"OpenGL", "Vulkan"} /\ os.discard
         THEN Stop(StageStep("RasterizerDiscard", "Rasterizer"))
         ELSE IF api \in {"OpenGL", "Vulkan"}
         THEN Add(StageStep("NoRasterizerDiscard", "Rasterizer"))
         ELSE Skip)

PositionOutputSteps(os, postvs_stage) ==
    IF LastRefl(os) = "None" THEN Stop(MeshStep("NoVertexShaderBound", postvs_stage))
    ELSE IF LastRefl(os) = "NoPosition" THEN Stop(MeshStep("NoPositionOutput", postvs_stage))
    ELSE Skip

\* the W=0 advisories without the case of every position
InvalidWStepsSome(vert_ndc, postvs_positions, postvs_stage) ==
    IF Len(vert_ndc) < Len(postvs_positions)
    THEN Add(MeshStep("SomePositionsW0", postvs_stage))
    ELSE Skip

InvalidWSteps(vert_ndc, postvs_positions, postvs_stage) ==
    IF Len(vert_ndc) = 0 /\ Len(postvs_positions) # 0
    THEN Add(MeshStep("AllPositionsW0", postvs_stage))
    ELSE IF Len(vert_ndc) < Len(postvs_positions)
    THEN Add(MeshStep("SomePositionsW0", postvs_stage))
    ELSE Skip

\* the projected area of the NDC bounds, times 400
Area400(v, v_min, v_max) ==
    ((v_max[1] - v_min[1]) * v.width) * ((v_max[2] - v_min[2]) * v.height)

\* a classification that never concludes 'reasonable but off-screen'
NdcClassifyNeverReasonable(v, vert_ndc_x, vert_ndc_y, postvs_stage, invalid_verts) ==
    Then(Add(MeshStep("PositionsInvalidOrDegenerate", postvs_stage)), invalid_verts)
\* the heuristic on the projected area of the NDC bounds and the guard band
NdcClassify(v, vert_ndc_x, vert_ndc_y, postvs_stage, invalid_verts) ==
    LET v_min == <<Min(vert_ndc_x), Min(vert_ndc_y)>>
        v_max == <<Max(vert_ndc_x), Max(vert_ndc_y)>>
        area == Area400(v, v_min, v_max)
    IN IF /\ 0 < area /\ area < 400
          /\ v_min[1] >= -10 /\ v_min[2] >= -10 /\ v_max[1] <= 10 /\ v_max[2] <= 10
       THEN Then(Add(MeshStep("AreaBelowOnePixel", postvs_stage)), invalid_verts)
       ELSE IF /\ Max({Abs(v_min[1]), Abs(v_min[2]), Abs(v_max[1]), Abs(v_max[2])}) < GuardBandTenth
               /\ area > 400
       THEN Stop(MeshStep("ReasonableButOffscreen", postvs_stage))
       ELSE Then(Add(MeshStep("PositionsInvalidOrDegenerate", postvs_stage)), invalid_verts)

\* invalid_verts is the outcome of check_invalid_verts()
check_offscreen(api, v, os, postvs_positions, postvs_stage, invalid_verts) ==
    LET vert_ndc == vert_ndc_of(postvs_positions)
        vert_ndc_x == FiniteComponent(vert_ndc, 1)
        vert_ndc_y == FiniteComponent(vert_ndc, 2)
    IN Then(Enter("check_offscreen"),
       Then(ViewportSteps(v, os),
       Then(RasterStateSteps(api, os),
       Then(PositionOutputSteps(os, postvs_stage),
       Then(InvalidWSteps(vert_ndc, postvs_positions, postvs_stage),
            IF vert_ndc_x = {} \/ vert_ndc_y = {}
            THEN Then(Add(MeshStep("PositionsAllNaN", postvs_stage)),
                 Then(invalid_verts, RaiseFinished))
            ELSE NdcClassify(v, vert_ndc_x, vert_ndc_y, postvs_stage, invalid_verts))))))

\* ------------------------------------- check_onscreen: state after overlays
\* ss: sampleMaskValue, multisampleEnable, sampleMaskEnable, sampleCoverage,
\* sampleCoverageInvert, sampleCoverageValue (tenths), depthWrites,
\* blendFactor (tenths) and blends, one per colour blend slot: writeMask,
\* enabled, source, destination, logicOperationEnabled, logicOperation.
\* sample masks are kept to their low 16 bits: 0xFFFFFFFF is 0xFFFF
FullMask == 65535
LowByte == 255

SampleMaskOf(api, ss, sample_count) ==
    IF api = "OpenGL"
    THEN IF sample_count > 1 /\ ss.multisampleEnable /\ ss.sampleMaskEnable
         THEN ss.sampleMaskValue ELSE FullMask
    ELSE ss.sampleMaskValue

SampleMaskSteps(api, ss, sample_count, tex) ==
    LET sample_mask == SampleMaskOf(api, ss, sample_count)
    IN IF sample_mask = 0 THEN Stop(StageStep("SampleMaskZero", "SampleMask"))
       ELSE IF BitAnd(sample_mask, LowByte) # LowByte
       THEN Add(ResultStep("SampleMaskSomeBits", <<sample_mask>>, tex, "ComputeShader",
                           "Count", NoHistory))
       ELSE Add(ResultStep("SampleMaskFine", <<sample_mask>>, tex, "ComputeShader",
                           "Count", NoHistory))

SampleCoverageSteps(api, ss, sample_count, tex) ==
    IF api # "OpenGL" THEN Skip
    ELSE IF sample_count > 1 /\ ss.multisampleEnable /\ ss.sampleCoverage
    THEN IF ss.sampleCoverageInvert /\ ss.sampleCoverageValue >= 10
         THEN Stop(ResultStep("SampleCoverageInvertedZero", <<ss.sampleCoverageValue>>,
                              NullTex, "Rasterizer", "Count", NoHistory))
         ELSE IF ~ss.sampleCoverageInvert /\ ss.sampleCoverageValue <= 0
         THEN Stop(ResultStep("SampleCoverageZero", <<ss.sampleCoverageValue>>,
                              NullTex, "Rasterizer", "Count", NoHistory))
         ELSE Skip
    ELSE Add(TexStep("SampleCoverageFine", tex))

\* the slots of blends whose target is bound (color_blends[i] is not None)
BoundSlots(blends, targets) ==
    {i \in 1..Len(blends) : i <= Len(targets) /\ targets[i] # NullRes}

\* depth_writes: False unless the depth test is enabled
DepthWritesOf(ss, depthEnable) == IF depthEnable THEN ss.depthWrites ELSE FALSE

\* the write masks with every blend slot counted, bound or not
WriteMaskStepsEverySlot(blends, targets, depth_writes) ==
    LET enabled_color_masks == {blends[i].writeMask # 0 : i \in 1..Len(blends)}
    IN IF TRUE \notin enabled_color_masks
       THEN IF depth_writes THEN Add(StageStep("AllMasksZeroDepthWrites", "Blending"))
            ELSE Stop(StageStep("AllMasksZeroNoDepthWrites", "Blending"))
       ELSE IF FALSE \in enabled_color_masks
       THEN Add(StageStep("SomeMasksZero", "Blending"))
       ELSE Add(StageStep("MasksNormal", "Blending"))

WriteMaskSteps(blends, targets, depth_writes) ==
    LET enabled_color_masks == {blends[i].writeMask # 0 : i \in BoundSlots(blends, targets)}
    IN IF TRUE \notin enabled_color_masks
       THEN IF depth_writes THEN Add(StageStep("AllMasksZeroDepthWrites", "Blending"))
            ELSE Stop(StageStep("AllMasksZeroNoDepthWrites", "Blending"))
       ELSE IF FALSE \in enabled_color_masks
       THEN Add(StageStep("SomeMasksZero", "Blending"))
       ELSE Add(StageStep("MasksNormal", "Blending"))

is_zero(mul, blend_factor) ==
    \/ mul = "Zero"
    \/ mul = "FactorAlpha" /\ blend_factor[4] = 0
    \/ mul = "FactorRGB" /\ SubSeq(blend_factor, 1, 3) = <<0, 0, 0>>
    \/ mul = "InvFactorAlpha" /\ blend_factor[4] = 10
    \/ mul = "InvFactorRGB" /\ SubSeq(blend_factor, 1, 3) = <<10, 10, 10>>

uses_src(mul) ==
    mul \in {"SrcCol", "InvSrcCol", "SrcAlpha", "InvSrcAlpha", "SrcAlphaSat",
             "Src1Col", "InvSrc1Col", "Src1Alpha", "InvSrc1Alpha"}

\* the slots that add a line to blend_warnings
BlendWarnings(blends, targets, blend_factor) ==
    {i \in BoundSlots(blends, targets) :
        IF blends[i].enabled
        THEN is_zero(blends[i].source, blend_factor) /\ ~uses_src(blends[i].destination)
        ELSE blends[i].logicOperationEnabled /\ blends[i].logicOperation = "NoOp"}

BlendSteps(blends, targets, blend_factor) ==
    LET blend_warnings == BlendWarnings(blends, targets, blend_factor)
    IN IF blend_warnings # {}
       THEN Add(ResultStep("BlendStrange", <<blend_warnings>>, NullTex, "Blending", "Count",
                           NoHistory))
       ELSE IF \E i \in BoundSlots(blends, targets) : blends[i].enabled
       THEN Add(StageStep("BlendFine", "Blending"))
       ELSE Add(StageStep("BlendDisabled", "Blending"))

\* lines 298-470 of check_onscreen
StateChecks(api, ss, sample_count, depthEnable, targets, tex) ==
    Then(SampleMaskSteps(api, ss, sample_count, tex),
    Then(SampleCoverageSteps(api, ss, sample_count, tex),
    Then(WriteMaskSteps(ss.blends, targets, DepthWritesOf(ss, depthEnable)),
         BlendSteps(ss.blends, targets, ss.blendFactor))))

\* ------------------------------------------ check_onscreen: clear before draw
\* the (target slot, sample) pairs of the two nested loops, in order
RECURSIVE CbdPairs(_, _, _)
CbdPairs(targets, textures, i) ==
    IF i > Len(targets) THEN <<>>
    ELSE (IF targets[i] # NullRes
          THEN [s \in 1..textures[targets[i]].msSamp |-> <<i, s - 1>>]
          ELSE <<>>) \o CbdPairs(targets, textures, i + 1)

CbdTex(t, sample, bg) ==
    [resourceId |-> t, overlay |-> "ClearBeforeDraw", sample |-> sample, bg |-> bg]

\* mm: texmin and texmax of GetMinMax; val: the background value (tenths)
RgbChanged(mm, c, val) == \E k \in 1..c : mm.min[k] # val \/ mm.max[k] # val
AlphaChanged(mm, compCount, val) == compCount = 4 /\ (mm.min[4] # val \/ mm.max[4] # val)

CbdBackground(eid, t, sample, bg, val, mm, compCount) ==
    Then(Query("overlay", eid),
    Then(Query("minmax", eid),
         IF RgbChanged(mm, Least(3, compCount), val)
         THEN Stop(ResultStep("ClearBeforeDrawRGB", <<t, bg>>, CbdTex(t, sample, bg),
                              "ComputeShader", "Count", NoHistory))
         ELSE IF AlphaChanged(mm, compCount, val)
         THEN Stop(ResultStep("ClearBeforeDrawAlpha", <<t, bg>>, CbdTex(t, sample, bg),
                              "ComputeShader", "Count", NoHistory))
         ELSE Skip))

RECURSIVE CbdLoop(_, _, _, _, _)
CbdLoop(eid, pairs, targets, textures, cbd) ==
    IF pairs = <<>> THEN Skip
    ELSE LET t == targets[pairs[1][1]]
             sample == pairs[1][2]
             compCount == textures[t].compCount
         IN Then(CbdBackground(eid, t, sample, "black", 0, cbd[t].black, compCount),
            Then(CbdBackground(eid, t, sample, "white", 10, cbd[t].white, compCount),
                 CbdLoop(eid, Tail(pairs), targets, textures, cbd)))

ClearBeforeDraw(eid, targets, textures, cbd) ==
    Then(CbdLoop(eid, CbdPairs(targets, textures, 1), targets, textures, cbd),
         Add(Note("ClearBeforeDrawNoChange")))

\* self.tex_display after the loops ran to their end
TexAfterCbd(tex, targets, textures) ==
    LET pairs == CbdPairs(targets, textures, 1)
    IN IF pairs = <<>> THEN tex
       ELSE CbdTex(targets[pairs[Len(pairs)][1]], pairs[Len(pairs)][2], "white")

\* -------------------------------------------- check_onscreen: pixel history
\* attempts = 5
MaxAttempts == 5

\* history[-1].Passed(): blend = color_blends[0] is an IndexError without blends
PassedStep(covered, alpha, blends, targets) ==
    IF Len(blends) = 0 THEN Fault
    ELSE IF /\ alpha <= 0
            /\ 1 \in BoundSlots(blends, targets)
            /\ blends[1].enabled
            /\ blends[1].source = "SrcAlpha"
    THEN Add(Note("HistoryAlphaZero"))
    ELSE Add(ResultStep("HistoryFragmentPassed", <<covered>>, NullTex, "ComputeShader",
                        "Count", NoHistory))

DiscardSummary(attempts, discarded) ==
    IF discarded > 0
    THEN Add(ResultStep("HistoryDiscarded", <<attempts, discarded>>, NullTex, "ComputeShader",
                        "Count", NoHistory))
    ELSE Add(Note("HistoryNoDiscard"))

\* covered_list: the shuffled covered pixels; ph[x]: the history of pixel x
\* the sampling loop without the break after a fragment that passed
RECURSIVE HistoryAttemptsNoBreak(_, _, _, _, _, _, _, _)
HistoryAttemptsNoBreak(eid, covered_list, ph, blends, targets, attempt, attempts, discarded) ==
    IF attempt > attempts THEN DiscardSummary(attempts, discarded)
    ELSE LET covered == covered_list[attempt]
             history == ph[covered]
             last == history[Len(history)]
             this_draw == {i \in 1..Len(history) : history[i].eventId = eid}
         IN Then(Query("history", eid),
            IF Len(history) = 0 \/ last.eventId # eid
            THEN HistoryAttemptsNoBreak(eid, covered_list, ph, blends, targets, attempt + 1,
                                        attempts, discarded)
            ELSE IF last.passed
            THEN Then(PassedStep(covered, last.alpha, blends, targets),
                      HistoryAttemptsNoBreak(eid, covered_list, ph, blends, targets,
                                             attempt + 1, attempts, discarded))
            ELSE HistoryAttemptsNoBreak(eid, covered_list, ph, blends, targets, attempt + 1,
                                        attempts,
                                        IF \A i \in this_draw : history[i].shaderDiscarded
                                        THEN discarded + 1 ELSE discarded))

RECURSIVE HistoryAttempts(_, _, _, _, _, _, _, _)
HistoryAttempts(eid, covered_list, ph, blends, targets, attempt, attempts, discarded) ==
    IF attempt > attempts THEN DiscardSummary(attempts, discarded)
    ELSE LET covered == covered_list[attempt]
             history == ph[covered]
             last == history[Len(history)]
             this_draw == {i \in 1..Len(history) : history[i].eventId = eid}
         IN Then(Query("history", eid),
            IF Len(history) = 0 \/ last.eventId # eid
            THEN HistoryAttempts(eid, covered_list, ph, blends, targets, attempt + 1,
                                 attempts, discarded)
            ELSE IF last.passed
            THEN Then(PassedStep(covered, last.alpha, blends, targets),
                      DiscardSummary(attempts, discarded))
            ELSE HistoryAttempts(eid, covered_list, ph, blends, targets, attempt + 1, attempts,
                                 IF \A i \in this_draw : history[i].shaderDiscarded
                                 THEN discarded + 1 ELSE discarded))

PixelHistoryChecks(eid, pixelHistory, covered_list, ph, blends, targets) ==
    IF pixelHistory
    THEN Then(Query("overlay", eid),
              HistoryAttempts(eid, covered_list, ph, blends, targets, 1,
                              Least(MaxAttempts, Len(covered_list)), 0))
    ELSE Add(Note("PixelHistoryUnsupported"))

\* ------------------------------------------------------------ the capture
\* A capture fixes the pipeline snapshot of the analysed draw and every
\* answer of the replay API.  Captures are built from one healthy draw
\* (BaseCap: on screen, passing every test) by varying what one stage reads.
BaseViewport == [x |-> 0, y |-> 0, width |-> 4, height |-> 4, minDepth |-> 0, maxDepth |-> 10]
BaseScissor == [enabled |-> FALSE, x |-> 0, y |-> 0, width |-> 4, height |-> 4]
BaseTexture == [width |-> 4, height |-> 4, msSamp |-> 1, compCount |-> 4]
BaseDepth == [depthEnable |-> TRUE, boundsEnable |-> FALSE, nearBound |-> 0, farBound |-> 10,
              depthFunction |-> "Less", clamp |-> FALSE, negOne |-> FALSE]
BaseFace == [function |-> "Equal", reference |-> 1, compareMask |-> 255]
BaseStencil == [stencilEnable |-> TRUE, cullMode |-> "NoCull", front |-> BaseFace,
                back |-> BaseFace]
\* one record of a pixel history; ago: how many events before the analysed one
Mod(ago, passed, discarded, alpha, pre, post) ==
    [ago |-> ago, passed |-> passed, shaderDiscarded |-> discarded, alpha |-> alpha,
     preDepth |-> pre, postDepth |-> post, preStencil |-> pre, postStencil |-> post]
BasePrev == [usage |-> <<[eventId |-> 1, usage |-> "Clear"]>>, clearScissor |-> BaseScissor,
             clear_color |-> 5, covered |-> <<1>>,
             history |-> <<Mod(1, TRUE, FALSE, 10, 5, 3), Mod(0, FALSE, FALSE, 10, 3, 3)>>]
BaseOffscreen == [renderArea |-> [width |-> 4, height |-> 4], discard |-> FALSE,
                  vsrefl |-> "Position", dsrefl |-> "None", gsrefl |-> "None"]
BaseDraw == [instanced |-> FALSE, indexed |-> FALSE, numIndices |-> 3, indexOffset |-> 0,
             baseVertex |-> 0, vertexOffset |-> 0, numInstances |-> 1, instanceOffset |-> 0]
BaseBuffer == [resourceId |-> 1, byteStride |-> 1, byteSize |-> 4, byteOffset |-> 0]
BaseAttr == [used |-> TRUE, pos |-> TRUE, vertexBuffer |-> 0, perInstance |-> FALSE,
             byteOffset |-> 0, elemSize |-> 1]
BaseMatrix == [rows |-> 4, columns |-> 4, type |-> "Float", zero |-> FALSE]
BaseInput == [vsBound |-> TRUE,
              ib |-> [resourceId |-> NullRes, byteStride |-> 0, byteSize |-> 0, byteOffset |-> 0],
              ibBufLen |-> NoBuffer, ibdata |-> <<>>, restartIdx |-> 3,
              restartEnabled |-> FALSE, strip |-> FALSE,
              vbuffers |-> <<BaseBuffer>>, vbBufLen |-> <<4>>, vsinputs |-> <<BaseAttr>>,
              cblocks |-> <<[bindArraySize |-> 1, vars |-> <<BaseMatrix>>]>>,
              nConstantBlocks |-> 1, posData |-> <<<<1, 2, 3>>>>]
BaseBlend == [writeMask |-> 15, enabled |-> FALSE, source |-> "One", destination |-> "Zero",
              logicOperationEnabled |-> FALSE, logicOperation |-> "Copy"]
BaseState == [sampleMaskValue |-> FullMask, multisampleEnable |-> FALSE,
              sampleMaskEnable |-> FALSE, sampleCoverage |-> FALSE,
              sampleCoverageInvert |-> FALSE, sampleCoverageValue |-> 10,
              depthWrites |-> TRUE, blendFactor |-> <<0, 0, 0, 0>>, blends |-> <<BaseBlend>>]
Flat(val) == [min |-> <<val, val, val, val>>, max |-> <<val, val, val, val>>]
BaseCbd == [black |-> Flat(0), white |-> Flat(10)]
\* positions as (x, y, z, w), x y z in tenths
BasePositions == <<<<-10, -10, 5, 1>>, <<10, 10, 9, 1>>>>
\* a histogram of the green channel with passing (green) pixels
GreenHist == <<1, 0, 1, 0, 1>>

BaseCap ==
    [api |-> "Vulkan", pixelHistory |-> TRUE, outputTargets |-> <<1>>, depthBound |-> TRUE,
     textures |-> [r \in 1..DepthRes |-> BaseTexture], listed |-> 1..DepthRes,
     drawcall |-> BaseDraw, postvs_stage |-> "VSOut", postvs_positions |-> BasePositions,
     vertexByteStride |-> 32,
     drawcallMax |-> 10, viewport |-> BaseViewport, scissor |-> BaseScissor,
     scissorHist |-> GreenHist, backfaceMax |-> 10, depthMax |-> 10, stencilMax |-> 10,
     d |-> BaseDepth, st |-> BaseStencil, p |-> BasePrev, os |-> BaseOffscreen,
     iv |-> BaseInput, ss |-> BaseState, cbd |-> [r \in 1..MaxTargets |-> BaseCbd],
     coveredPixels |-> <<1>>, ph |-> [x \in 1..MaxCovered |-> <<Mod(0, FALSE, TRUE, 10, 5, 5)>>]]

\* self.targets: the bound colour targets, then the depth target
targets_of(c) ==
    SelectSeq2(c.outputTargets, {i \in 1..Len(c.outputTargets) : c.outputTargets[i] # NullRes})
        \o (IF c.depthBound THEN <<DepthRes>> ELSE <<>>)

\* a pixel history as the replay returns it for an analysis of event eid
\* (records of events before the first event of the capture do not exist)
HistoryAt(history, eid) ==
    LET known == SelectSeq2(history, {i \in 1..Len(history) : eid - history[i].ago >= 1})
    IN [i \in 1..Len(known) |->
        [eventId |-> eid - known[i].ago, passed |-> known[i].passed,
         shaderDiscarded |-> known[i].shaderDiscarded, alpha |-> known[i].alpha,
         preDepth |-> known[i].preDepth, postDepth |-> known[i].postDepth,
         preStencil |-> known[i].preStencil, postStencil |-> known[i].postStencil]]

\* ---------------------------------------------------- capture scenarios
OutputTargetSets ==
    {[i \in 1..n |-> i] : n \in 0..MaxTargets}
        \cup {[i \in 1..n |-> IF i = 1 THEN NullRes ELSE i] : n \in 1..MaxTargets}

\* the three preconditions of Analysis.__init__
PreCaps ==
    {[BaseCap EXCEPT !.outputTargets = t, !.depthBound = FALSE, !.drawcall.numIndices = k] :
        t \in {<<>>, <<NullRes>>}, k \in {0, 3}}
    \cup {[BaseCap EXCEPT !.drawcall.instanced = i, !.drawcall.numInstances = n,
                          !.drawcall.numIndices = k, !.drawcall.indexed = x] :
            i \in BOOLEAN, n \in {0, 1}, k \in {0, 3}, x \in BOOLEAN}

Viewports ==
    {BaseViewport, [BaseViewport EXCEPT !.width = 1], [BaseViewport EXCEPT !.height = -1],
     [BaseViewport EXCEPT !.x = 4], [BaseViewport EXCEPT !.y = 4],
     [BaseViewport EXCEPT !.height = -4], [BaseViewport EXCEPT !.x = -4],
     [BaseViewport EXCEPT !.y = -4], [BaseViewport EXCEPT !.y = 4, !.height = -4]}

OffscreenStates ==
    {BaseOffscreen, [BaseOffscreen EXCEPT !.renderArea.width = 0],
     [BaseOffscreen EXCEPT !.discard = TRUE], [BaseOffscreen EXCEPT !.vsrefl = "None"],
     [BaseOffscreen EXCEPT !.vsrefl = "NoPosition"],
     [BaseOffscreen EXCEPT !.gsrefl = "NoPosition"],
     [BaseOffscreen EXCEPT !.dsrefl = "Position", !.vsrefl = "NoPosition"]}

TinyPositions == <<<<0, 0, 5, 1>>, <<1, 1, 5, 1>>>>
PositionSets ==
    {BasePositions, TinyPositions, <<<<-40000, 0, 5, 1>>, <<40000, 10, 5, 1>>>>,
     <<<<0, 0, 5, 1>>>>, <<<<0, 0, 0, 0>>>>, <<<<0, 0, 5, 1>>, <<1, 1, 5, 0>>>>,
     <<<<NonFinite, 0, 5, 1>>>>, <<>>, <<<<0, 0, 0, 0>>, <<1, 1, 5, 0>>>>}

\* position buffers of 16 and of 32 bytes a vertex
StrideCaps(cap0) ==
    {[cap0 EXCEPT !.vertexByteStride = k, !.postvs_positions = g, !.drawcall.numInstances = n] :
        k \in {16, 32}, g \in {BasePositions, <<<<0, 0, 5, 1>>>>}, n \in {1, 2}}

\* (drawcall, vertex input) pairs
IndexedDraw == [BaseDraw EXCEPT !.indexed = TRUE]
IndexBuffer(data) ==
    [BaseInput EXCEPT !.ib = [resourceId |-> 2, byteStride |-> 2, byteSize |-> 6,
                              byteOffset |-> 0],
                      !.ibBufLen = 6, !.ibdata = data, !.restartEnabled = TRUE, !.strip = TRUE]
InputSets ==
    {<<BaseDraw, BaseInput>>,
     <<BaseDraw, [BaseInput EXCEPT !.vsBound = FALSE]>>,
     <<IndexedDraw, BaseInput>>,
     <<IndexedDraw, IndexBuffer(<<0, 1, 2>>)>>,
     <<IndexedDraw, IndexBuffer(<<0, 3, 2>>)>>,
     <<[IndexedDraw EXCEPT !.numIndices = 1], IndexBuffer(<<3>>)>>,
     <<IndexedDraw, [IndexBuffer(<<0, 1, 2>>) EXCEPT !.ib.byteSize = 2]>>,
     <<IndexedDraw, [IndexBuffer(<<0, 1, 2>>) EXCEPT !.ib.byteSize = 2,
                        !.vbuffers = <<[BaseBuffer EXCEPT !.resourceId = NullRes]>>]>>,
     <<[IndexedDraw EXCEPT !.baseVertex = 1], IndexBuffer(<<0, 1, 2>>)>>,
     <<IndexedDraw, [IndexBuffer(<<0, 1, 2>>) EXCEPT !.ib.byteSize = 0]>>,
     <<[BaseDraw EXCEPT !.vertexOffset = 1], BaseInput>>,
     <<[BaseDraw EXCEPT !.vertexOffset = 2], BaseInput>>,
     <<[BaseDraw EXCEPT !.instanced = TRUE, !.numInstances = 2, !.instanceOffset = 2],
       [BaseInput EXCEPT !.vsinputs = <<[BaseAttr EXCEPT !.perInstance = TRUE]>>]>>,
     <<[BaseDraw EXCEPT !.instanced = TRUE, !.numInstances = 2, !.instanceOffset = 3],
       [BaseInput EXCEPT !.vsinputs = <<[BaseAttr EXCEPT !.perInstance = TRUE]>>]>>,
     <<BaseDraw, [BaseInput EXCEPT !.vbuffers = <<[BaseBuffer EXCEPT !.byteStride = 0]>>]>>,
     <<BaseDraw, [BaseInput EXCEPT !.vbuffers = <<[BaseBuffer EXCEPT !.byteSize = 2]>>]>>,
     <<BaseDraw, [BaseInput EXCEPT !.vbuffers = <<[BaseBuffer EXCEPT !.resourceId = NullRes]>>]>>,
     <<BaseDraw, [BaseInput EXCEPT !.vsinputs = <<[BaseAttr EXCEPT !.perInstance = TRUE]>>]>>,
     <<BaseDraw, [BaseInput EXCEPT !.posData = <<<<0, 0, 0>>>>]>>,
     <<BaseDraw, [BaseInput EXCEPT !.posData = <<<<7, 7, 7>>>>]>>,
     <<BaseDraw, [BaseInput EXCEPT !.cblocks = <<[bindArraySize |-> 1,
                      vars |-> <<[BaseMatrix EXCEPT !.zero = TRUE]>>]>>]>>,
     <<BaseDraw, [BaseInput EXCEPT !.cblocks = <<[bindArraySize |-> 1,
                      vars |-> <<[BaseMatrix EXCEPT !.zero = TRUE]>>]>>,
                                   !.vbuffers = <<BaseBuffer, BaseBuffer>>,
                                   !.vbBufLen = <<4, 4>>]>>}

\* the draw highlight overlay shows nothing: check_offscreen
OffCap == [BaseCap EXCEPT !.drawcallMax = 0]
OffCaps ==
    {[OffCap EXCEPT !.viewport = v, !.api = a] : v \in Viewports, a \in APIs}
    \cup {[OffCap EXCEPT !.os = o, !.api = a] :
            o \in OffscreenStates, a \in {"OpenGL", "Vulkan", "D3D12"}}
    \cup {[OffCap EXCEPT !.postvs_positions = g, !.postvs_stage = m] :
            g \in PositionSets, m \in {"VSOut", "GSOut"}}
    \cup {[OffCap EXCEPT !.postvs_positions = TinyPositions, !.drawcall = i[1], !.iv = i[2]] :
            i \in InputSets}
    \cup StrideCaps(OffCap)

\* scissor test enabled
NoGreenHist == <<1, 1, 0, 0, 1>>
ScissorRects ==
    {[BaseScissor EXCEPT !.enabled = TRUE, !.x = r[1], !.y = r[2], !.width = r[3],
                         !.height = r[4]] :
        r \in {<<0, 0, 0, 4>>, <<0, 0, 4, 0>>, <<5, 0, 1, 1>>, <<0, 5, 1, 1>>,
               <<-3, 0, 1, 1>>, <<0, -3, 1, 1>>, <<1, 1, 2, 2>>}}
ScissorCaps ==
    {[BaseCap EXCEPT !.scissor.enabled = TRUE, !.scissorHist = h] :
        h \in {GreenHist, NoGreenHist, <<0, 0, 0, 1, 0>>, <<0, 0, 0, 0, 0>>}}
    \cup {[BaseCap EXCEPT !.scissor = r, !.scissorHist = h] :
            r \in ScissorRects, h \in {GreenHist, NoGreenHist}}
    \cup {[BaseCap EXCEPT !.scissor = [BaseScissor EXCEPT !.enabled = TRUE, !.width = 1,
                                                          !.height = 1],
                          !.viewport = [BaseViewport EXCEPT !.y = 2, !.height = 2],
                          !.scissorHist = NoGreenHist]}
    \cup {[BaseCap EXCEPT !.scissor.width = 0, !.drawcallMax = m, !.outputTargets = t,
                          !.depthBound = b] :
            m \in {0, 10}, t \in {<<>>, <<1>>}, b \in BOOLEAN}

BackfaceCaps ==
    {[BaseCap EXCEPT !.backfaceMax = 0, !.scissor.enabled = e] : e \in BOOLEAN}

\* the depth overlay shows no passing pixel: check_failed_depth
DepthCap == [BaseCap EXCEPT !.depthMax = 0]
ZPositions(z1, z2) == <<<<0, 0, z1, 1>>, <<5, 5, z2, 1>>>>
DepthStateCaps ==
    {[DepthCap EXCEPT !.d.depthFunction = f, !.d.depthEnable = e, !.d.clamp = c] :
        f \in {"Never", "Less", "NotEqual", "AlwaysTrue"}, e \in BOOLEAN, c \in BOOLEAN}
    \cup {[DepthCap EXCEPT !.api = a, !.d.negOne = n, !.d.clamp = c,
                           !.postvs_positions = ZPositions(-5, -5)] :
            a \in APIs, n \in BOOLEAN, c \in BOOLEAN}
DepthBoundsCaps ==
    {[DepthCap EXCEPT !.api = a, !.d.boundsEnable = TRUE, !.d.nearBound = b[1],
                      !.d.farBound = b[2], !.viewport.minDepth = m,
                      !.postvs_positions = ZPositions(z[1], z[2])] :
        a \in {"Vulkan", "D3D11"}, b \in {<<2, 3>>, <<0, 10>>, <<11, 12>>},
        m \in {0, 5}, z \in {<<5, 9>>, <<2, 3>>}}
DepthGeometryCaps ==
    {[DepthCap EXCEPT !.postvs_positions = g] :
        g \in {<<>>, <<<<0, 0, 0, 0>>>>, <<<<0, 0, NonFinite, 1>>>>, ZPositions(15, 15),
               ZPositions(-5, 5)}}

Histories ==
    {<<>>,
     <<Mod(1, TRUE, FALSE, 10, 5, 3)>>,
     <<Mod(0, TRUE, FALSE, 10, 5, 3)>>,
     <<Mod(1, TRUE, FALSE, 10, 5, 3), Mod(0, FALSE, FALSE, 10, 3, 3)>>,
     <<Mod(1, FALSE, FALSE, 10, 5, 3), Mod(0, FALSE, FALSE, 10, 3, 3)>>,
     <<Mod(0, FALSE, TRUE, 10, 3, 3), Mod(0, FALSE, FALSE, 10, 3, 3)>>,
     <<Mod(2, TRUE, FALSE, 10, 5, 3), Mod(1, TRUE, FALSE, 10, 3, 3),
       Mod(0, FALSE, FALSE, 10, 3, 3)>>,
     <<Mod(2, TRUE, FALSE, 10, 5, 3), Mod(1, TRUE, FALSE, 10, 3, 4),
       Mod(0, FALSE, FALSE, 10, 3, 3)>>,
     <<Mod(2, TRUE, FALSE, 10, 5, 3), Mod(1, TRUE, FALSE, 10, 4, 3),
       Mod(0, FALSE, FALSE, 10, 3, 3)>>,
     <<Mod(1, TRUE, FALSE, 10, 3, 3), Mod(0, FALSE, FALSE, 10, 3, 3)>>}
PreviousCaps(cap0) ==
    {[cap0 EXCEPT !.p.usage = u, !.p.clear_color = cc, !.d.depthFunction = f] :
        u \in {<<>>, BasePrev.usage, <<[eventId |-> 1, usage |-> "ColorTarget"]>>},
        cc \in {0, 5, 10}, f \in {"Less", "Greater", "LessEqual", "GreaterEqual"}}
    \cup {[cap0 EXCEPT !.p.history = h, !.pixelHistory = ph] :
            h \in Histories, ph \in BOOLEAN}
    \cup {[cap0 EXCEPT !.p.covered = <<>>], [cap0 EXCEPT !.depthBound = FALSE]}
    \cup {[cap0 EXCEPT !.p.clear_color = cc, !.d.depthFunction = f,
                        !.viewport.minDepth = m[1], !.viewport.maxDepth = m[2]] :
            cc \in {0, 2, 5, 8, 10},
            f \in {"Less", "Greater", "LessEqual", "GreaterEqual"},
            m \in {<<2, 8>>, <<8, 2>>}}
    \cup {[cap0 EXCEPT !.api = "OpenGL", !.p.clearScissor = r, !.viewport = v] :
            r \in ScissorRects \cup {[BaseScissor EXCEPT !.enabled = TRUE]},
            v \in {BaseViewport, [BaseViewport EXCEPT !.x = -4]}}
DepthCaps ==
    StrideCaps(DepthCap) \cup DepthStateCaps \cup DepthBoundsCaps \cup DepthGeometryCaps \cup PreviousCaps(DepthCap)

\* the stencil overlay shows no passing pixel: check_failed_stencil
StencilCap == [BaseCap EXCEPT !.stencilMax = 0]
Faces ==
    {BaseFace, [BaseFace EXCEPT !.function = "Never"],
     [BaseFace EXCEPT !.function = "Less", !.reference = 0],
     [BaseFace EXCEPT !.function = "GreaterEqual", !.reference = 256],
     [BaseFace EXCEPT !.function = "Equal", !.reference = 2, !.compareMask = 1],
     [BaseFace EXCEPT !.function = "Greater", !.reference = 2, !.compareMask = 1],
     [BaseFace EXCEPT !.function = "GreaterEqual", !.reference = 2, !.compareMask = 1],
     [BaseFace EXCEPT !.function = "NotEqual"]}
StencilCaps ==
    {[StencilCap EXCEPT !.st.front = f, !.st.back = b, !.st.cullMode = c] :
        f \in Faces, b \in {BaseFace, [BaseFace EXCEPT !.function = "Never"],
                            [BaseFace EXCEPT !.function = "NotEqual"]},
        c \in {"NoCull", "Front", "Back"}}
    \cup {[StencilCap EXCEPT !.st.front = f, !.st.back = f, !.pixelHistory = FALSE] :
            f \in Faces}
    \cup {[StencilCap EXCEPT !.st.stencilEnable = FALSE]}
    \cup {[StencilCap EXCEPT !.p.history = h, !.pixelHistory = ph] :
            h \in Histories, ph \in BOOLEAN}

\* every overlay passes: sample mask, coverage, write masks, blending
StateSets ==
    {BaseState, [BaseState EXCEPT !.sampleMaskValue = 0],
     [BaseState EXCEPT !.sampleMaskValue = 1],
     [BaseState EXCEPT !.sampleMaskValue = 0, !.multisampleEnable = TRUE,
                       !.sampleMaskEnable = TRUE],
     [BaseState EXCEPT !.multisampleEnable = TRUE, !.sampleCoverage = TRUE,
                       !.sampleCoverageInvert = TRUE],
     [BaseState EXCEPT !.multisampleEnable = TRUE, !.sampleCoverage = TRUE,
                       !.sampleCoverageValue = 0],
     [BaseState EXCEPT !.multisampleEnable = TRUE, !.sampleCoverage = TRUE,
                       !.sampleCoverageValue = 5],
     [BaseState EXCEPT !.blends = <<[BaseBlend EXCEPT !.writeMask = 0]>>],
     [BaseState EXCEPT !.blends = <<[BaseBlend EXCEPT !.writeMask = 0]>>,
                       !.depthWrites = FALSE],
     [BaseState EXCEPT !.blends = <<[BaseBlend EXCEPT !.enabled = TRUE]>>],
     [BaseState EXCEPT !.blends = <<[BaseBlend EXCEPT !.enabled = TRUE, !.source = "Zero"]>>],
     [BaseState EXCEPT !.blends = <<[BaseBlend EXCEPT !.enabled = TRUE,
                                                       !.source = "FactorAlpha"]>>],
     [BaseState EXCEPT !.blends = <<[BaseBlend EXCEPT !.enabled = TRUE, !.source = "Zero",
                                                       !.destination = "SrcCol"]>>],
     [BaseState EXCEPT !.blends = <<[BaseBlend EXCEPT !.logicOperationEnabled = TRUE,
                                                       !.logicOperation = "NoOp"]>>],
     [BaseState EXCEPT !.blends = <<>>]}
StateCaps ==
    {[BaseCap EXCEPT !.api = a, !.ss = x, !.textures[1].msSamp = m] :
        a \in {"OpenGL", "D3D11"}, x \in StateSets, m \in 1..MaxSamples}
    \cup {[BaseCap EXCEPT !.ss.blends = <<[BaseBlend EXCEPT !.writeMask = 0]>>,
                          !.d.depthEnable = FALSE, !.api = a] : a \in APIs}
    \cup {[BaseCap EXCEPT !.outputTargets = t, !.ss.blends = b, !.ss.depthWrites = w] :
            t \in OutputTargetSets, w \in BOOLEAN,
            b \in {<<BaseBlend>>, <<BaseBlend, [BaseBlend EXCEPT !.writeMask = 0]>>,
                   <<[BaseBlend EXCEPT !.writeMask = 0], BaseBlend>>}}

\* the clear-before-draw overlay on black and on white
Changed(val, k) == [min |-> [i \in 1..4 |-> val], max |-> [i \in 1..4 |-> IF i = k THEN 5 ELSE val]]
CbdCaps ==
    {[BaseCap EXCEPT !.outputTargets = t, !.textures[1].msSamp = m,
                     !.textures[1].compCount = c] :
        t \in OutputTargetSets, m \in 1..MaxSamples, c \in {3, 4}}
    \cup {[BaseCap EXCEPT !.cbd[1].black = b, !.cbd[1].white = w, !.textures[1].compCount = c] :
            b \in {Flat(0), Changed(0, 1), Changed(0, 4)},
            w \in {Flat(10), Changed(10, 3), Changed(10, 4)}, c \in {3, 4}}

\* pixel history of covered pixels in check_onscreen
PixelHistories ==
    {<<>>, <<Mod(1, TRUE, FALSE, 10, 5, 3)>>, <<Mod(0, TRUE, FALSE, 10, 5, 3)>>,
     <<Mod(0, TRUE, FALSE, 0, 5, 3)>>, <<Mod(0, FALSE, TRUE, 10, 5, 5)>>,
     <<Mod(0, FALSE, FALSE, 10, 5, 5)>>}
HistoryCaps ==
    {[BaseCap EXCEPT !.coveredPixels = [i \in 1..n |-> i],
                     !.ph = [x \in 1..MaxCovered |-> IF x = 1 THEN h1 ELSE h2]] :
        n \in 0..NumPixels, h1 \in PixelHistories,
        h2 \in {<<Mod(0, TRUE, FALSE, 10, 5, 3)>>, <<Mod(0, FALSE, TRUE, 10, 5, 5)>>}}
    \cup {[BaseCap EXCEPT !.ph = [x \in 1..MaxCovered |-> h], !.ss.blends = b] :
            h \in {<<Mod(0, TRUE, FALSE, 10, 5, 3)>>, <<Mod(0, TRUE, FALSE, 0, 5, 3)>>},
            b \in {<<>>, <<[BaseBlend EXCEPT !.enabled = TRUE, !.source = "SrcAlpha"]>>}}
    \cup {[BaseCap EXCEPT !.pixelHistory = FALSE]}
\* draws that cover more pixels than check_onscreen samples
ManyCoveredCaps ==
    {[BaseCap EXCEPT !.coveredPixels = [i \in 1..MaxCovered |-> i],
                     !.ph = [x \in 1..MaxCovered |-> IF x = 1 THEN h1 ELSE h2]] :
        h1 \in {<<Mod(0, TRUE, FALSE, 10, 5, 3)>>, <<Mod(0, FALSE, TRUE, 10, 5, 5)>>},
        h2 \in {<<Mod(0, FALSE, TRUE, 10, 5, 5)>>}}

\* self.r.GetTextures() does not list every bound target
SetupCaps == {[BaseCap EXCEPT !.listed = l] : l \in {{}, 1..MaxTargets}}

\* an API without pixel history, over the depth geometry and setup scenarios
NoHistoryCaps ==
    {[c EXCEPT !.pixelHistory = FALSE] : c \in DepthGeometryCaps \cup SetupCaps}

Captures ==
    PreCaps \cup OffCaps \cup ScissorCaps \cup BackfaceCaps \cup DepthCaps \cup StencilCaps
        \cup StateCaps \cup CbdCaps \cup HistoryCaps \cup SetupCaps \cup NoHistoryCaps

\* ------------------------------------------------ Analysis: reading a capture
RECURSIVE Repeat(_, _)
Repeat(s, n) == IF n = 0 THEN <<>> ELSE s \o Repeat(s, n - 1)

\* one fetch of the post-transform positions: len(pos_data) is numIndices
\* strides, and a vertex is unpacked when vert * stride + 16 < len(pos_data)
Unpacked(verts, stride) ==
    SelectSeq2(verts, {i \in 1..Len(verts) : (i - 1) * stride + 16 < stride * Len(verts)})

\* self.postvs_positions: one fetch for every instance (one view)
postvs_positions_of(c) ==
    Repeat(Unpacked(c.postvs_positions, c.vertexByteStride),
           Greatest(1, c.drawcall.numInstances))

\* the offscreen state with target_descs[0]
OffscreenOf(c) ==
    [tw |-> c.textures[targets_of(c)[1]].width, th |-> c.textures[targets_of(c)[1]].height,
     renderArea |-> c.os.renderArea, discard |-> c.os.discard, vsrefl |-> c.os.vsrefl,
     dsrefl |-> c.os.dsrefl, gsrefl |-> c.os.gsrefl]

\* what check_previous_depth_stencil reads, with target_descs[-1]
PreviousOf(c, eid) ==
    LET last == targets_of(c)[Len(targets_of(c))]
    IN [usage |-> c.p.usage, clearScissor |-> c.p.clearScissor, tw |-> c.textures[last].width,
        th |-> c.textures[last].height, clear_color |-> c.p.clear_color,
        pixelHistory |-> c.pixelHistory, covered |-> c.p.covered,
        history |-> HistoryAt(c.p.history, eid)]

\* self.tex_display as check_draw sets it up, showing overlay o
DrawTex(c, o) == [resourceId |-> targets_of(c)[1], overlay |-> o, sample |-> 0, bg |-> "none"]

\* the preconditions without the test of numIndices
PreconditionsNoCount(c, eid) ==
    IF Len(targets_of(c)) = 0
    THEN Stop(ResultStep("NoTargetsBound", <<eid>>, NullTex, "ComputeShader", "Count", NoHistory))
    ELSE IF c.drawcall.instanced /\ c.drawcall.numInstances = 0
    THEN Stop(Note("ZeroInstances"))
    ELSE Skip
\* lines 142-160
Preconditions(c, eid) ==
    IF Len(targets_of(c)) = 0
    THEN Stop(ResultStep("NoTargetsBound", <<eid>>, NullTex, "ComputeShader", "Count", NoHistory))
    ELSE IF c.drawcall.instanced /\ c.drawcall.numInstances = 0
    THEN Stop(Note("ZeroInstances"))
    ELSE IF c.drawcall.numIndices = 0
    THEN Stop(ResultStep("ZeroVertices", <<IF c.drawcall.indexed THEN "indices" ELSE "vertices">>,
                         NullTex, "ComputeShader", "Count", NoHistory))
    ELSE Skip

\* check_draw up to the branch: lines 173-206
DrawOverlay(c, eid) ==
    Then(Enter("check_draw"),
    Then(Query("minmax", eid),
    Then(Query("overlay", eid),
         IF c.drawcallMax < 5 THEN Add(Note("OverlayShowsNothing"))
         ELSE Add(TexStep("OverlayShowsDraw", DrawTex(c, "Drawcall"))))))

Offscreen(c, eid) ==
    check_offscreen(c.api, c.viewport, OffscreenOf(c), postvs_positions_of(c), c.postvs_stage,
                    check_invalid_verts(c.drawcall, c.iv))

\* the buckets with green pixels: above 20%, below the top bucket
ScissorBuckets(texhist) ==
    {b \in 0..(Len(texhist) - 1) :
        texhist[b + 1] > 0 /\ Len(texhist) \div 5 < b /\ b < Len(texhist) - 1}

\* a scissor stage that notes the failure and goes on
OnscreenScissorGoesOn(c, eid) ==
    IF c.scissor.enabled
    THEN Then(Enter("scissor"),
         Then(Query("histogram", eid),
              IF ScissorBuckets(c.scissorHist) = {}
              THEN CatchFinished(check_failed_scissor(c.viewport, c.scissor))
              ELSE Add(TexStep("ScissorPasses", DrawTex(c, "ViewportScissor")))))
    ELSE Skip
\* lines 235-257; the bare raise after check_failed_scissor has no exception to re-raise
OnscreenScissor(c, eid) ==
    IF c.scissor.enabled
    THEN Then(Enter("scissor"),
         Then(Query("histogram", eid),
              IF ScissorBuckets(c.scissorHist) = {}
              THEN Then(check_failed_scissor(c.viewport, c.scissor), Fault)
              ELSE Add(TexStep("ScissorPasses", DrawTex(c, "ViewportScissor")))))
    ELSE Skip

\* lines 259-270
OnscreenBackface(c, eid) ==
    Then(Enter("backface"),
    Then(Query("overlay", eid),
         IF c.backfaceMax < 5
         THEN Then(check_failed_backface_culling(DrawTex(c, "BackfaceCull")), RaiseFinished)
         ELSE Add(TexStep("BackfacePasses", DrawTex(c, "BackfaceCull")))))

\* lines 272-283
OnscreenDepth(c, eid) ==
    Then(Enter("depth"),
    Then(Query("overlay", eid),
         IF c.depthMax < 5
         THEN Then(check_failed_depth(c.api, DrawTex(c, "Depth"), c.viewport, c.d,
                                      vert_ndc_of(postvs_positions_of(c)), c.postvs_stage),
              Then(check_previous_depth_stencil(eid, c.d.depthFunction, c.api,
                                                DrawTex(c, "Depth"), c.depthBound, c.viewport,
                                                PreviousOf(c, eid)),
                   RaiseFinished))
         ELSE Add(TexStep("DepthPasses", DrawTex(c, "Depth")))))

\* lines 285-296
OnscreenStencil(c, eid) ==
    Then(Enter("stencil"),
    Then(Query("overlay", eid),
         IF c.stencilMax < 5
         THEN Then(check_failed_stencil(DrawTex(c, "Stencil"), c.st),
              Then(check_previous_depth_stencil(eid, "None", c.api, DrawTex(c, "Stencil"),
                                                c.depthBound, c.viewport, PreviousOf(c, eid)),
                   RaiseFinished))
         ELSE Add(TexStep("StencilPasses", DrawTex(c, "Stencil")))))

\* lines 298-470
OnscreenState(c) ==
    StateChecks(c.api, c.ss, c.textures[targets_of(c)[1]].msSamp, c.d.depthEnable,
                c.outputTargets, DrawTex(c, "Stencil"))

\* lines 475-535
OnscreenClearBeforeDraw(c, eid) == ClearBeforeDraw(eid, c.outputTargets, c.textures, c.cbd)

\* random.shuffle(covered_list): any order of the covered pixels
Shuffles(covered_list) ==
    {s \in [1..Len(covered_list) -> Range(covered_list)] : Range(s) = Range(covered_list)}

\* the arguments of self.r.PixelHistory in check_onscreen: the first target,
\* and the subresource of the shared tex_display (the target whose mip and
\* slice it holds, and its sample)
PixelHistoryArgs(c, tex) ==
    [target |-> targets_of(c)[1], subresourceOf |-> tex.resourceId, sample |-> tex.sample]

\* lines 539-612
OnscreenPixelHistory(c, eid, covered_list) ==
    PixelHistoryChecks(eid, c.pixelHistory, covered_list,
                       [x \in 1..MaxCovered |-> HistoryAt(c.ph[x], eid)], c.ss.blends,
                       c.outputTargets)

\* the generic step appended by both the branch and check_draw
WrapUpTwice == Then(Enter("wrap_up"), Then(Add(Note("CouldNotProve")), Stop(Note("CouldNotProve"))))
\* lines 211-217: reached when the branch returned
WrapUpSteps == Then(Enter("wrap_up"), Stop(Note("CouldNotProve")))

\* ------------------------------------------------------------------ state
VARIABLES
    cap,            \* the loaded capture
    curEvent,       \* ctx.CurEvent()
    window_eid,     \* Window.eid
    buttonEnabled,  \* the analyse button
    results,        \* Window.results
    cur_result,     \* Window.cur_result
    uiQueue,        \* finished_callback invocations posted onto the UI thread
    rq,             \* _replay_callback invocations queued on the replay thread
    replayPos,      \* the event the replay controller is at
    pc,             \* where the replay thread is in Analysis.__init__
    eid,            \* Analysis.eid
    analysis_steps, \* Analysis.analysis_steps
    out,            \* Analysis.out: "none", "live" or "shutdown"
    tex_display,    \* Analysis.tex_display
    covered_list,   \* the shuffled covered pixels of check_onscreen
    ended,          \* how the try body ended: "none", "raise", "fault"
    raiseAt,        \* len(analysis_steps) when AnalysisFinished was first raised, or -1
    queries,        \* the oracle queries of this run, in order
    entered,        \* the checkers entered in this run, in order
    shutdowns,      \* calls of out.Shutdown() in this run
    posBefore,      \* replayPos when the run started
    posted,         \* InvokeOntoUIThread calls of this _replay_callback
    firstTrail,     \* per event, the trail of its first finished analysis
    showDetails,    \* whether the 'Show More Info' button is enabled
    viewer          \* the viewer goto_details raised last, or "none"

vars == <<cap, viewer, showDetails, curEvent, window_eid, buttonEnabled, results, cur_result, uiQueue, rq,
          replayPos, pc, eid, analysis_steps, out, tex_display, covered_list, ended, raiseAt,
          queries, entered, shutdowns, posBefore, posted, firstTrail>>

\* what a step of the analysis walk leaves alone
walkFixed == <<cap, viewer, showDetails, curEvent, window_eid, buttonEnabled, results, cur_result, uiQueue, rq, eid,
               out, shutdowns, posBefore, posted, firstTrail>>

Init ==
    /\ cap \in Captures
    /\ curEvent = 1
    /\ window_eid = 0
    /\ buttonEnabled = FALSE
    /\ results = <<>>
    /\ cur_result = 0
    /\ uiQueue = <<>>
    /\ rq = <<>>
    /\ replayPos = 1
    /\ pc = "idle"
    /\ eid = 0
    /\ analysis_steps = <<>>
    /\ out = "none"
    /\ tex_display = NullTex
    /\ covered_list = <<>>
    /\ ended = "none"
    /\ raiseAt = -1
    /\ queries = <<>>
    /\ entered = <<>>
    /\ shutdowns = 0
    /\ posBefore = 0
    /\ posted = 0
    /\ firstTrail = [e \in Events |-> <<>>]
    /\ showDetails = TRUE
    /\ viewer = "none"

\* ------------------------------------------------------------- the window
\* a host that does not seek the replay when the selection changes
OnEventChangedNoSeek(e) ==
    /\ pc = "idle" /\ rq = <<>>
    /\ e # curEvent
    /\ curEvent' = e
    /\ buttonEnabled' = IsDraw(e)
    /\ showDetails' = refresh_result(results, cur_result, showDetails)
    /\ UNCHANGED <<cap, viewer, window_eid, results, cur_result, uiQueue, rq, replayPos, pc, eid,
                   analysis_steps, out, tex_display, covered_list, ended, raiseAt, queries,
                   entered, shutdowns, posBefore, posted, firstTrail>>
\* The user selects event e.  The host seeks the replay with a blocking call
\* on the replay thread, so the selection completes when that thread is idle.
OnEventChanged(e) ==
    /\ pc = "idle" /\ rq = <<>>
    /\ e # curEvent
    /\ curEvent' = e
    /\ replayPos' = e
    /\ buttonEnabled' = IsDraw(e)
    /\ showDetails' = refresh_result(results, cur_result, showDetails)
    /\ UNCHANGED <<cap, viewer, window_eid, results, cur_result, uiQueue, rq, pc, eid,
                   analysis_steps, out, tex_display, covered_list, ended, raiseAt, queries,
                   entered, shutdowns, posBefore, posted, firstTrail>>

InFlight == Len(rq) + Len(uiQueue) + (IF pc = "idle" THEN 0 ELSE 1)

\* the analyse button: start_analysis, then analyse_draw queues _replay_callback
start_analysis ==
    /\ buttonEnabled
    /\ InFlight < MaxInFlight
    /\ window_eid' = curEvent
    /\ buttonEnabled' = FALSE
    /\ rq' = Append(rq, curEvent)
    /\ UNCHANGED <<cap, viewer, showDetails, curEvent, results, cur_result, uiQueue, replayPos, pc, eid,
                   analysis_steps, out, tex_display, covered_list, ended, raiseAt, queries,
                   entered, shutdowns, posBefore, posted, firstTrail>>

\* the UI thread runs the posted lambda: finished_callback(analysis.get_steps())
finish_analysis ==
    /\ uiQueue # <<>>
    /\ buttonEnabled' = TRUE
    /\ results' = Head(uiQueue).steps
    /\ cur_result' = 0
    /\ showDetails' = refresh_result(Head(uiQueue).steps, 0, showDetails)
    /\ uiQueue' = Tail(uiQueue)
    /\ UNCHANGED <<cap, viewer, curEvent, window_eid, rq, replayPos, pc, eid, analysis_steps, out,
                   tex_display, covered_list, ended, raiseAt, queries, entered, shutdowns,
                   posBefore, posted, firstTrail>>

\* -------------------------------------------------------- the replay thread
\* the replay position after the seeks among the queries q
LastSeek(q, pos) ==
    LET seeks == {i \in 1..Len(q) : q[i].kind = "seek"}
    IN IF seeks = {} THEN pos ELSE q[Max(seeks)].at

\* the walk takes outcome o: on a return it goes on to `next`, AnalysisFinished
\* and any other exception unwind to the finally clause, a hang stays
Apply(o, next, tex, order) ==
    /\ analysis_steps' = analysis_steps \o o.steps
    /\ covered_list' = order
    /\ queries' = queries \o o.q
    /\ entered' = entered \o o.ran
    /\ raiseAt' = IF raiseAt < 0 /\ o.raisedAt >= 0 THEN Len(analysis_steps) + o.raisedAt
                  ELSE raiseAt
    /\ ended' = IF o.end = "return" THEN "none" ELSE o.end
    /\ pc' = IF o.end = "return" THEN next
             ELSE IF o.end = "hang" THEN "hung" ELSE "finally"
    /\ replayPos' = LastSeek(o.q, replayPos)
    /\ tex_display' = tex
    /\ UNCHANGED walkFixed

\* an Analysis whose analysis_steps list is shared with the previous run
AnalysisInitSharedSteps ==
    /\ pc = "idle" /\ rq # <<>>
    /\ eid' = Head(rq)
    /\ rq' = Tail(rq)
    /\ posBefore' = replayPos
    /\ replayPos' = Head(rq)
    /\ out' = "live"
    /\ tex_display' = NullTex
    /\ covered_list' = <<>>
    /\ ended' = "none"
    /\ raiseAt' = -1
    /\ queries' = <<>>
    /\ entered' = <<>>
    /\ shutdowns' = 0
    /\ posted' = 0
    /\ pc' = "preconditions"
    /\ UNCHANGED <<cap, viewer, showDetails, curEvent, window_eid, buttonEnabled, results, cur_result, uiQueue,
                   analysis_steps, firstTrail>>
\* lines 101-108: get_tex returns None for a target that self.textures does
\* not list, and desc.width is an AttributeError, outside the try statement
SetupFaults(c) == \E i \in 1..Len(targets_of(c)) : targets_of(c)[i] \notin c.listed

\* _replay_callback starts: Analysis.__init__ up to the try (lines 67-135);
\* an exception there leaves _replay_callback, no output created
AnalysisInit ==
    /\ pc = "idle" /\ rq # <<>>
    /\ eid' = Head(rq)
    /\ rq' = Tail(rq)
    /\ posBefore' = replayPos
    /\ replayPos' = Head(rq)
    /\ out' = IF SetupFaults(cap) THEN "none" ELSE "live"
    /\ tex_display' = NullTex
    /\ covered_list' = <<>>
    /\ analysis_steps' = <<>>
    /\ ended' = IF SetupFaults(cap) THEN "fault" ELSE "none"
    /\ raiseAt' = -1
    /\ queries' = <<>>
    /\ entered' = <<>>
    /\ shutdowns' = 0
    /\ posted' = 0
    /\ pc' = IF SetupFaults(cap) THEN "over" ELSE "preconditions"
    /\ UNCHANGED <<cap, viewer, showDetails, curEvent, window_eid, buttonEnabled, results, cur_result, uiQueue,
                   firstTrail>>

CheckPreconditions ==
    /\ pc = "preconditions"
    /\ Apply(Preconditions(cap, eid), "check_draw", tex_display, covered_list)

check_draw ==
    /\ pc = "check_draw"
    /\ Apply(DrawOverlay(cap, eid), IF cap.drawcallMax < 5 THEN "offscreen" ELSE "scissor",
             DrawTex(cap, "Drawcall"), covered_list)

RunOffscreen ==
    /\ pc = "offscreen"
    /\ Apply(Offscreen(cap, eid), "wrapup", tex_display, covered_list)

RunScissor ==
    /\ pc = "scissor"
    /\ Apply(OnscreenScissor(cap, eid), "backface",
             IF cap.scissor.enabled THEN DrawTex(cap, "ViewportScissor") ELSE tex_display,
             covered_list)

RunBackface ==
    /\ pc = "backface"
    /\ Apply(OnscreenBackface(cap, eid), "depth", DrawTex(cap, "BackfaceCull"), covered_list)

RunDepth ==
    /\ pc = "depth"
    /\ Apply(OnscreenDepth(cap, eid), "stencil", DrawTex(cap, "Depth"), covered_list)

RunStencil ==
    /\ pc = "stencil"
    /\ Apply(OnscreenStencil(cap, eid), "state", DrawTex(cap, "Stencil"), covered_list)

RunState ==
    /\ pc = "state"
    /\ Apply(OnscreenState(cap), "clear_before_draw", tex_display, covered_list)

RunClearBeforeDraw ==
    /\ pc = "clear_before_draw"
    /\ Apply(OnscreenClearBeforeDraw(cap, eid), "pixel_history",
             TexAfterCbd(tex_display, cap.outputTargets, cap.textures), covered_list)

RunPixelHistory ==
    /\ pc = "pixel_history"
    /\ \E order \in Shuffles(cap.coveredPixels) :
          Apply(OnscreenPixelHistory(cap, eid, order), "wrapup",
                IF cap.pixelHistory THEN [tex_display EXCEPT !.overlay = "Drawcall"]
                ELSE tex_display,
                IF cap.pixelHistory THEN order ELSE <<>>)

\* the branch returned: the generic step, then raise AnalysisFinished
WrapUp ==
    /\ pc = "wrapup"
    /\ Apply(WrapUpSteps, "finally", tex_display, covered_list)

\* the shutdown after the try statement instead of in a finally clause
ShutdownUnlessFault ==
    /\ pc = "finally"
    /\ out' = IF ended = "fault" THEN out ELSE "shutdown"
    /\ shutdowns' = IF ended = "fault" THEN shutdowns ELSE shutdowns + 1
    /\ replayPos' = IF ended = "fault" THEN replayPos ELSE eid
    /\ pc' = IF ended = "fault" THEN "over" ELSE "post"
    /\ UNCHANGED <<cap, viewer, showDetails, curEvent, window_eid, buttonEnabled, results, cur_result, uiQueue, rq,
                   eid, analysis_steps, tex_display, covered_list, ended, raiseAt, queries,
                   entered, posBefore, posted, firstTrail>>
\* finally: self.out.Shutdown(); self.r.SetFrameEvent(self.eid, False)
Finally ==
    /\ pc = "finally"
    /\ out' = "shutdown"
    /\ shutdowns' = shutdowns + 1
    /\ replayPos' = eid
    /\ pc' = IF ended = "fault" THEN "over" ELSE "post"
    /\ UNCHANGED <<cap, viewer, showDetails, curEvent, window_eid, buttonEnabled, results, cur_result, uiQueue, rq,
                   eid, analysis_steps, tex_display, covered_list, ended, raiseAt, queries,
                   entered, posBefore, posted, firstTrail>>

\* Analysis(...) returned: InvokeOntoUIThread(lambda: finished_callback(...))
InvokeOntoUIThread ==
    /\ pc = "post"
    /\ uiQueue' = Append(uiQueue, [eid |-> eid, steps |-> analysis_steps])
    /\ posted' = posted + 1
    /\ firstTrail' = IF firstTrail[eid] = <<>>
                     THEN [firstTrail EXCEPT ![eid] = <<analysis_steps, covered_list>>]
                     ELSE firstTrail
    /\ pc' = "over"
    /\ UNCHANGED <<cap, viewer, showDetails, curEvent, window_eid, buttonEnabled, results, cur_result, rq,
                   replayPos, eid, analysis_steps, out, tex_display, covered_list, ended,
                   raiseAt, queries, entered, shutdowns, posBefore>>

\* _replay_callback is left, by its return or by the exception of Analysis(...)
CallbackOver ==
    /\ pc = "over"
    /\ pc' = "idle"
    /\ UNCHANGED <<cap, viewer, showDetails, curEvent, window_eid, buttonEnabled, results, cur_result, uiQueue, rq,
                   replayPos, eid, analysis_steps, out, tex_display, covered_list, ended,
                   raiseAt, queries, entered, shutdowns, posBefore, posted, firstTrail>>

Next ==
    \/ \E e \in Events : OnEventChanged(e)
    \/ start_analysis
    \/ finish_analysis
    \/ AnalysisInit
    \/ CheckPreconditions
    \/ check_draw
    \/ RunOffscreen
    \/ RunScissor
    \/ RunBackface
    \/ RunDepth
    \/ RunStencil
    \/ RunState
    \/ RunClearBeforeDraw
    \/ RunPixelHistory
    \/ WrapUp
    \/ Finally
    \/ InvokeOntoUIThread
    \/ CallbackOver

Spec == Init /\ [][Next]_vars

\* ------------------------------------------- the window showing a trail
\* steps with every combination of populated and unpopulated references
SampleHistory == [id |-> 1, x |-> 0, last_eid |-> 1, history |-> <<>>]
SampleSteps ==
    {ResultStep("step", <<>>, tex, stage, mesh, ph) :
        tex \in {NullTex, [NullTex EXCEPT !.resourceId = 1, !.overlay = "Depth"]},
        stage \in {"ComputeShader", "Rasterizer"},
        mesh \in {"Count", "VSIn"},
        ph \in {NoHistory, SampleHistory}}
MaxTrail == 2
SampleTrails == UNION {[1..n -> SampleSteps] : n \in 1..MaxTrail}

\* finish_analysis has just shown a trail
DetailsInit ==
    /\ cap = BaseCap
    /\ curEvent = 1
    /\ window_eid = 1
    /\ buttonEnabled = TRUE
    /\ results \in SampleTrails
    /\ cur_result = 0
    /\ showDetails = refresh_result(results, 0, TRUE)
    /\ viewer = "none"
    /\ uiQueue = <<>>
    /\ rq = <<>>
    /\ replayPos = 1
    /\ pc = "idle"
    /\ eid = 1
    /\ analysis_steps = results
    /\ out = "shutdown"
    /\ tex_display = NullTex
    /\ covered_list = <<>>
    /\ ended = "none"
    /\ raiseAt = -1
    /\ queries = <<>>
    /\ entered = <<>>
    /\ shutdowns = 1
    /\ posBefore = 1
    /\ posted = 1
    /\ firstTrail = [e \in Events |-> <<>>]

windowFixed == <<cap, curEvent, window_eid, buttonEnabled, results, uiQueue, rq, replayPos,
                 pc, eid, analysis_steps, out, tex_display, covered_list, ended, raiseAt,
                 queries, entered, shutdowns, posBefore, posted, firstTrail>>

\* a 'previous' button that goes back to the first step
goto_previous_step_first ==
    /\ results # <<>> /\ cur_result > 0
    /\ cur_result' = 0
    /\ showDetails' = refresh_result(results, cur_result', showDetails)
    /\ UNCHANGED <<windowFixed, viewer>>

\* the 'previous' button, enabled while cur_result > 0
goto_previous_step ==
    /\ results # <<>> /\ cur_result > 0
    /\ cur_result' = Greatest(cur_result - 1, 0)
    /\ showDetails' = refresh_result(results, cur_result', showDetails)
    /\ UNCHANGED <<windowFixed, viewer>>

\* the 'next' button, enabled while cur_result < len(results) - 1
goto_next_step ==
    /\ results # <<>> /\ cur_result < Len(results) - 1
    /\ cur_result' = Least(cur_result + 1, Len(results) - 1)
    /\ showDetails' = refresh_result(results, cur_result', showDetails)
    /\ UNCHANGED <<windowFixed, viewer>>

\* the 'Show More Info' button
goto_details ==
    /\ results # <<>> /\ showDetails
    /\ viewer' = LET shown == DetailsViewer(results[cur_result + 1])
                 IN IF shown = "none" THEN viewer ELSE shown
    /\ UNCHANGED <<windowFixed, cur_result, showDetails>>

DetailsNext ==
    \/ goto_previous_step
    \/ goto_next_step
    \/ goto_details

DetailsSpec == DetailsInit /\ [][DetailsNext]_vars

\* --------------------------------------------- one analysis, start to end
\* the analyse button was pressed on event e: _replay_callback is queued
WalkInit ==
    /\ cap \in Captures \cup ManyCoveredCaps
    /\ \E e \in Events : curEvent = e /\ window_eid = e /\ rq = <<e>> /\ replayPos = e
    /\ buttonEnabled = FALSE
    /\ results = <<>>
    /\ cur_result = 0
    /\ showDetails = TRUE
    /\ viewer = "none"
    /\ uiQueue = <<>>
    /\ pc = "idle"
    /\ eid = 0
    /\ analysis_steps = <<>>
    /\ out = "none"
    /\ tex_display = NullTex
    /\ covered_list = <<>>
    /\ ended = "none"
    /\ raiseAt = -1
    /\ queries = <<>>
    /\ entered = <<>>
    /\ shutdowns = 0
    /\ posBefore = 0
    /\ posted = 0
    /\ firstTrail = [e \in Events |-> <<>>]

WalkNext ==
    \/ AnalysisInit
    \/ CheckPreconditions
    \/ check_draw
    \/ RunOffscreen
    \/ RunScissor
    \/ RunBackface
    \/ RunDepth
    \/ RunStencil
    \/ RunState
    \/ RunClearBeforeDraw
    \/ RunPixelHistory
    \/ WrapUp
    \/ Finally
    \/ InvokeOntoUIThread
    \/ CallbackOver
    \/ finish_analysis

WalkSpec == WalkInit /\ [][WalkNext]_vars

\* ------------------------------------- the window with analyses in flight
\* the analyse button, pressed while an earlier analysis may be under way
start_analysis_pending ==
    /\ buttonEnabled
    /\ InFlight < MaxPending
    /\ window_eid' = curEvent
    /\ buttonEnabled' = FALSE
    /\ rq' = Append(rq, curEvent)
    /\ UNCHANGED <<cap, viewer, showDetails, curEvent, results, cur_result, uiQueue, replayPos, pc, eid,
                   analysis_steps, out, tex_display, covered_list, ended, raiseAt, queries,
                   entered, shutdowns, posBefore, posted, firstTrail>>

WindowInit == Init /\ cap \in {BaseCap, OffCap}

WindowNext ==
    \/ \E e \in Events : OnEventChanged(e)
    \/ start_analysis_pending
    \/ finish_analysis
    \/ AnalysisInit
    \/ CheckPreconditions
    \/ check_draw
    \/ RunOffscreen
    \/ RunScissor
    \/ RunBackface
    \/ RunDepth
    \/ RunStencil
    \/ RunState
    \/ RunClearBeforeDraw
    \/ RunPixelHistory
    \/ WrapUp
    \/ Finally
    \/ InvokeOntoUIThread
    \/ CallbackOver

WindowSpec == WindowInit /\ [][WindowNext]_vars

\* ------------------------------------ the window with its navigation bar
\* OnCaptureClosed / closed: reset()
reset ==
    /\ pc = "idle" /\ rq = <<>>
    /\ buttonEnabled' = FALSE
    /\ cur_result' = 0
    /\ results' = <<>>
    /\ UNCHANGED <<cap, viewer, showDetails, curEvent, window_eid, uiQueue, rq, replayPos, pc, eid,
                   analysis_steps, out, tex_display, covered_list, ended, raiseAt, queries,
                   entered, shutdowns, posBefore, posted, firstTrail>>

NavigationNext ==
    \/ \E e \in Events : OnEventChanged(e)
    \/ start_analysis
    \/ finish_analysis
    \/ reset
    \/ goto_previous_step
    \/ goto_next_step
    \/ AnalysisInit
    \/ CheckPreconditions
    \/ check_draw
    \/ RunOffscreen
    \/ RunScissor
    \/ RunBackface
    \/ RunDepth
    \/ RunStencil
    \/ RunState
    \/ RunClearBeforeDraw
    \/ RunPixelHistory
    \/ WrapUp
    \/ Finally
    \/ InvokeOntoUIThread
    \/ CallbackOver

NavigationSpec == WindowInit /\ [][NavigationNext]_vars

\* ------------------------------------------------------------------ claims
Last(s) == s[Len(s)]
Messages == {analysis_steps[i].msg : i \in 1..Len(analysis_steps)}
Ran(name) == name \in Range(entered)
Asked(kind) == \E i \in 1..Len(queries) : queries[i].kind = kind

\* C1: once a checker has raised AnalysisFinished no step is appended and no
\* stage of the walk runs any more: the trail has the length it had at the
\* raise, and the walk is in its finally clause or past it.
C1_StopIsFinal ==
    raiseAt >= 0 => /\ Len(analysis_steps) = raiseAt
                    /\ pc \in {"finally", "post", "over", "idle"}

\* a trail cut short by the stencil checker finding both faces set to Never
C1_Witness ==
    /\ pc = "post"
    /\ raiseAt = Len(analysis_steps)
    /\ Last(analysis_steps).msg = "StencilNever/test"
    /\ Ran("check_failed_stencil") /\ ~Ran("check_previous_depth_stencil")

\* C2: the output created by a run is shut down exactly once before the run
\* ends, whether the walk ended by exhaustion, by a terminal stop or by a fault;
\* while the walk is under way the output is live.  (A run that faults before
\* it creates its output has none to shut down.)
C2_ShutdownOnce ==
    /\ shutdowns <= 1
    /\ pc \in {"post", "over"} =>
          IF SetupFaults(cap)
          THEN shutdowns = 0 /\ out = "none"
          ELSE shutdowns = 1 /\ out = "shutdown"
    /\ pc \in {"preconditions", "check_draw", "offscreen", "scissor", "backface", "depth",
               "stencil", "state", "clear_before_draw", "pixel_history", "wrapup", "finally"}
          => (shutdowns = 0 /\ out = "live")

\* a run ended by a fault, its output shut down
C2_Witness == pc = "over" /\ ended = "fault" /\ shutdowns = 1 /\ out = "shutdown"

C4_CallbackOnce ==
    /\ posted <= 1
    /\ pc = "over" => /\ posted = 1
                      /\ uiQueue # <<>>
                      /\ Last(uiQueue).steps = analysis_steps
                      /\ out = "shutdown"

Count(msg) == Cardinality({i \in 1..Len(analysis_steps) : analysis_steps[i].msg = msg})
RunOver == pc \in {"finally", "post", "over"}

\* C6: the generic step is in the trail exactly when the selected branch
\* returned to check_draw (which it does only without a terminal conclusion);
\* it is appended once and is then the last step.
C6_GenericStep ==
    /\ pc = "wrapup" => (raiseAt = -1 /\ ended = "none" /\ Count("CouldNotProve") = 0)
    /\ ~RunOver /\ pc # "idle" => Count("CouldNotProve") = 0
    /\ RunOver => /\ Count("CouldNotProve") <= 1
                  /\ Count("CouldNotProve") = 1 <=> Ran("wrap_up")
                  /\ Count("CouldNotProve") = 1 =>
                        /\ Last(analysis_steps).msg = "CouldNotProve"
                        /\ raiseAt = Len(analysis_steps)

\* the offscreen branch returned after the vertex input validation
C6_Witness ==
    /\ pc = "post"
    /\ Ran("check_offscreen") /\ Ran("check_invalid_verts")
    /\ Last(analysis_steps).msg = "CouldNotProve"
    /\ Len(analysis_steps) > 3

PreconditionFails(c) ==
    \/ Len(targets_of(c)) = 0
    \/ c.drawcall.instanced /\ c.drawcall.numInstances = 0
    \/ c.drawcall.numIndices = 0

\* C7: when no target is bound, or the draw is instanced with 0 instances, or
\* it has 0 vertices or indices, the walk goes from the preconditions straight
\* to the end: one step naming the condition, check_draw never entered, no
\* overlay, histogram or pixel history query.
C7_PreconditionOnly ==
    (PreconditionFails(cap) /\ pc \notin {"idle", "preconditions"}) =>
        /\ RunOver
        /\ Len(analysis_steps) = 1
        /\ analysis_steps[1].msg \in {"NoTargetsBound", "ZeroInstances", "ZeroVertices"}
        /\ Len(targets_of(cap)) = 0 <=> analysis_steps[1].msg = "NoTargetsBound"
        /\ ~Ran("check_draw")
        /\ ~Asked("overlay") /\ ~Asked("histogram") /\ ~Asked("history")

\* a draw of 0 vertices with targets bound
C7_Witness ==
    /\ pc = "post"
    /\ cap.drawcall.numIndices = 0 /\ Len(targets_of(cap)) > 0
    /\ ~(cap.drawcall.instanced /\ cap.drawcall.numInstances = 0)
    /\ analysis_steps = <<ResultStep("ZeroVertices", <<"vertices">>, NullTex, "ComputeShader",
                                     "Count", NoHistory)>>

\* the overlay stages of check_onscreen, their focused checkers and pass notes
Stages == <<"scissor", "backface", "depth", "stencil">>
Checkers == <<"check_failed_scissor", "check_failed_backface_culling", "check_failed_depth",
              "check_failed_stencil">>
PassNotes == <<"ScissorPasses", "BackfacePasses", "DepthPasses", "StencilPasses">>
StageFailed(c, k) ==
    CASE k = 1 -> c.scissor.enabled /\ ScissorBuckets(c.scissorHist) = {}
      [] k = 2 -> c.backfaceMax < 5
      [] k = 3 -> c.depthMax < 5
      [] k = 4 -> c.stencilMax < 5

\* C8 as stated: the stages run in the order scissor, backface, depth, stencil;
\* a stage whose overlay shows no passing pixel runs its focused checker, and
\* the run then ends by a terminal stop, no later stage run or noted.
C8_FailedStageStops ==
    RunOver =>
        /\ \A i, j \in 1..Len(entered) : \A k, l \in 1..4 :
              (i < j /\ entered[i] = Stages[k] /\ entered[j] = Stages[l]) => k < l
        /\ \A k \in 1..4 :
              (Ran(Stages[k]) /\ StageFailed(cap, k)) =>
                 /\ Ran(Checkers[k])
                 /\ ended = "raise"
                 /\ \A l \in (k + 1)..4 : ~Ran(Stages[l]) /\ Count(PassNotes[l]) = 0

ReachesScissor(c) == ~PreconditionFails(c) /\ c.drawcallMax >= 5 /\ c.scissor.enabled

\* C9 as stated: a draw whose scissor rectangle has width 0 ends with a terminal
\* step tagged ViewportsScissors, no backface, depth or stencil check run.
C9_ScissorWidthZero ==
    (RunOver /\ cap.scissor.width = 0) =>
        /\ ended = "raise"
        /\ Last(analysis_steps).pipe_stage = "ViewportsScissors"
        /\ ~Ran("backface") /\ ~Ran("depth") /\ ~Ran("stencil")

\* C9, amended: so it is when the draw is on screen, scissor 0 is enabled and
\* the scissor overlay shows no passing pixel.
C9_ScissorWidthZeroFailed ==
    (RunOver /\ cap.scissor.width = 0 /\ ReachesScissor(cap)
        /\ ScissorBuckets(cap.scissorHist) = {}) =>
        /\ ended = "raise"
        /\ Last(analysis_steps).msg = "ScissorEmpty"
        /\ Last(analysis_steps).pipe_stage = "ViewportsScissors"
        /\ raiseAt = Len(analysis_steps)
        /\ ~Ran("backface") /\ ~Ran("depth") /\ ~Ran("stencil")

C9_Witness ==
    /\ pc = "post"
    /\ cap.scissor.width = 0 /\ ReachesScissor(cap) /\ ScissorBuckets(cap.scissorHist) = {}
    /\ Ran("check_failed_scissor")
    /\ Last(analysis_steps).msg = "ScissorEmpty"

\* the scenario of C10: the depth overlay fails, depth test and depth bounds
\* test on, viewport depth 0 to 1, depth bounds 0.2 to 0.3, vertex z 0.5 to 0.9
DepthBoundsScenario(c) ==
    LET z == FiniteComponent(vert_ndc_of(postvs_positions_of(c)), 3)
    IN /\ ~PreconditionFails(c) /\ c.drawcallMax >= 5
       /\ ~StageFailed(c, 1) /\ ~StageFailed(c, 2) /\ StageFailed(c, 3)
       /\ c.d.depthEnable /\ c.d.depthFunction # "Never"
       /\ DepthBoundsOf(c.api, c.d) = <<2, 3>>
       /\ c.viewport.minDepth = 0 /\ c.viewport.maxDepth = 10
       /\ z # {} /\ Min(z) = 5 /\ Max(z) = 9

\* C10 as stated: the scenario ends at the viewport check, before the vertex check.
C10_ViewportCheckFires ==
    (RunOver /\ DepthBoundsScenario(cap)) =>
        /\ Last(analysis_steps).msg = "ViewportDepthOutsideBounds"
        /\ Count("VerticesOutsideBounds") = 0

\* C10, amended: in the scenario the viewport range and the bounds overlap, the
\* viewport check passes with a note, and the run ends at the vertex check.
C10_VertexCheckFires ==
    (RunOver /\ DepthBoundsScenario(cap)) =>
        /\ ended = "raise"
        /\ Count("ViewportDepthOutsideBounds") = 0
        /\ Count("ViewportDepthWithinBounds") = 1
        /\ Last(analysis_steps).msg = "VerticesOutsideBounds"
        /\ raiseAt = Len(analysis_steps)

C10_Witness ==
    /\ pc = "post"
    /\ DepthBoundsScenario(cap)
    /\ Ran("check_failed_depth")
    /\ Last(analysis_steps).msg = "VerticesOutsideBounds"

\* the six impossible-configuration predicates of check_failed_stencil, by message
Impossible(name, x) ==
    CASE name = "StencilNever" -> IsNever(x)
      [] name = "StencilLessGreaterImpossible" -> IsLessGreaterImpossible(x)
      [] name = "StencilEqualImpossible" -> IsEqualImpossible(x)
      [] name = "StencilMaskedEqual" -> IsMaskedEqual(x)
      [] name = "StencilMaskedGreater" -> IsMaskedGreater(x)
      [] name = "StencilMaskedGreaterEqual" -> IsMaskedGreaterEqual(x)
ImpossibleNames ==
    {"StencilNever", "StencilLessGreaterImpossible", "StencilEqualImpossible",
     "StencilMaskedEqual", "StencilMaskedGreater", "StencilMaskedGreaterEqual"}
\* the run went through the face checks of check_failed_stencil
FaceChecksRan == RunOver /\ Ran("check_failed_stencil") /\ cap.st.stencilEnable

\* C11: when both effective face states satisfy an impossible-configuration
\* predicate, the run stops at a step tagged with the stencil stage whose
\* message attributes the cause to 'test', before the previous-contents check.
C11_BothFacesTerminal ==
    \A name \in ImpossibleNames :
        (FaceChecksRan /\ Impossible(name, EffectiveFront(cap.st))
                       /\ Impossible(name, EffectiveBack(cap.st))) =>
            /\ ended = "raise"
            /\ raiseAt = Len(analysis_steps)
            /\ Last(analysis_steps).pipe_stage = "StencilTest"
            /\ Last(analysis_steps).msg \in {n \o "/test" : n \in ImpossibleNames}
            /\ ~Ran("check_previous_depth_stencil")

\* front and back both compare Less with reference 0, culling disabled
C11_Witness ==
    /\ pc = "post"
    /\ FaceChecksRan
    /\ cap.st.cullMode = "NoCull" /\ cap.st.front = cap.st.back
    /\ cap.st.front.function = "Less" /\ cap.st.front.reference = 0
    /\ Last(analysis_steps).msg = "StencilLessGreaterImpossible/test"
    /\ Last(analysis_steps).pipe_stage = "StencilTest"

\* C12 as stated: a step of the face checks that names one face is not the
\* step the run stopped at, and the face it names is the one whose effective
\* state satisfies the predicate, the other face's state not satisfying it.
C12_NamesMatchingFace ==
    FaceChecksRan =>
        \A i \in 1..Len(analysis_steps) : \A name \in ImpossibleNames :
            /\ analysis_steps[i].msg = name \o "/front face test" =>
                  /\ i # raiseAt
                  /\ Impossible(name, EffectiveFront(cap.st))
                  /\ ~Impossible(name, EffectiveBack(cap.st))
            /\ analysis_steps[i].msg = name \o "/back face test" =>
                  /\ i # raiseAt
                  /\ Impossible(name, EffectiveBack(cap.st))
                  /\ ~Impossible(name, EffectiveFront(cap.st))

\* the mode of the previous-contents check of this run, and the history it got
PrevMode == IF Ran("check_failed_depth") THEN cap.d.depthFunction ELSE "None"
PrevHistory == PreviousOf(cap, eid).history
\* the previous-contents check asked for the history of a covered pixel and
\* got one whose last record is a failing fragment of the analysed event
FailingHistoryRead ==
    /\ RunOver /\ Ran("check_previous_depth_stencil") /\ Asked("history")
    /\ Len(PrevHistory) > 0
    /\ Last(PrevHistory).eventId = eid /\ ~Last(PrevHistory).passed
\* the value the first fragment of the analysed event was tested against
FirstPre == LET first == Min({i \in 1..Len(PrevHistory) : PrevHistory[i].eventId = eid})
            IN PreVal(PrevHistory[first], PrevMode)
\* the records of other events that passed and changed the value to FirstPre
Writers == {i \in 1..Len(PrevHistory) :
               /\ PrevHistory[i].eventId # eid /\ PrevHistory[i].passed
               /\ PostVal(PrevHistory[i], PrevMode) = FirstPre
               /\ PreVal(PrevHistory[i], PrevMode) # FirstPre}

\* C13 as stated: with such a history the trail has a step that attributes the
\* value to the newest writer, in depth mode and in stencil mode alike, or
\* reports that no previous writer was detected when there is none.
C13_Attribution ==
    FailingHistoryRead =>
        \E i \in 1..Len(analysis_steps) :
            IF Writers = {}
            THEN /\ analysis_steps[i].msg = "HistoryNoPreviousDraw"
                 /\ analysis_steps[i].pixel_history.last_eid = 0
            ELSE /\ analysis_steps[i].msg = "HistoryPreviousDraw"
                 /\ analysis_steps[i].pixel_history.last_eid = PrevHistory[Max(Writers)].eventId

\* the gathered positions of the capture and the indices of those with w # 0
Gathered == postvs_positions_of(cap)
NonZeroW == {i \in 1..Len(Gathered) : Gathered[i][4] # 0}
\* the offscreen branch came to its NDC stage: none of the stops before it
NdcStageReached ==
    /\ RunOver /\ Ran("check_offscreen")
    /\ \A m \in {"ViewportDegenerate", "ViewportOutOfBounds", "RenderAreaEmpty",
                 "RasterizerDiscard", "NoVertexShaderBound", "NoPositionOutput"} : Count(m) = 0
StepIndex(msg) == CHOOSE i \in 1..Len(analysis_steps) : analysis_steps[i].msg = msg

C15_DepthNeverFaults ==
    (pc = "over" /\ Ran("check_failed_depth")) => (ended # "fault" /\ posted = 1)

\* C16 as stated: a run that faulted during setup, before the stage walk,
\* posts a trail to the UI thread, and that trail is empty (which the window
\* reports as 'Analysis failed'), unlike the trail of an exhausted walk.
C16_SetupFaultSurfaced ==
    (pc = "over" /\ SetupFaults(cap)) =>
        /\ posted = 1
        /\ uiQueue # <<>> /\ Last(uiQueue).eid = eid /\ Last(uiQueue).steps = <<>>

\* C17: after the snapshot exactly one of the four backend pipeline states is
\* populated, the one of the active API, and every checker that ran
\* dereferenced populated backend states only.
BackendReaders ==
    {"check_onscreen", "check_offscreen", "check_failed_backface_culling",
     "check_failed_depth", "check_failed_stencil"}
InvalidVertsOutcome == check_invalid_verts(cap.drawcall, cap.iv)
\* the inputs on which check_invalid_verts raises AnalysisFinished
InvalidVertsTerminal ==
    \/ ~cap.iv.vsBound
    \/ /\ cap.drawcall.indexed
       /\ (cap.iv.ib.resourceId = NullRes \/ cap.iv.ib.byteStride = 0)

HistoryMessages ==
    {"HistoryNoCoveredPixel", "HistoryInvalid", "HistoryPreviousDraw", "HistoryNoPreviousDraw",
     "HistoryAlphaZero", "HistoryFragmentPassed", "HistoryDiscarded", "HistoryNoDiscard"}
HistoryQueried == \E i \in 1..Len(queries) : queries[i].kind = "history"

\* C19 as stated: with the pixel-history capability flag false no run issues
\* a pixel-history query, none faults, and every run delivers a non-empty
\* trail; an onscreen walk that got to its end notes that pixel history is
\* unsupported, and the depth/stencil path goes to its final note without any
\* pixel-history step.
C19_NoHistoryDegrades ==
    (pc = "over" /\ ~cap.pixelHistory) =>
        /\ ~HistoryQueried
        /\ ended # "fault"
        /\ posted = 1 /\ analysis_steps # <<>>
        /\ \A m \in HistoryMessages : Count(m) = 0
        /\ (Ran("scissor") /\ Count("CouldNotProve") = 1)
               => Count("PixelHistoryUnsupported") = 1
        /\ (Ran("check_previous_depth_stencil") /\ Count("FailingNormally") = 1)
               => Last(analysis_steps).msg = "FailingNormally"

\* the overlay each stage of check_onscreen has on display for its pass note
StageOverlay(msg) ==
    IF msg = "ScissorPasses" THEN "ViewportScissor"
    ELSE IF msg = "BackfacePasses" THEN "BackfaceCull"
    ELSE IF msg = "DepthPasses" THEN "Depth"
    ELSE "Stencil"
PassNoteAt(i) == analysis_steps[i].msg \in Range(PassNotes)

\* C20: a step holds the texture display as it was when the step was created:
\* a step of the running analysis that mutates the shared tex_display (or
\* appends steps) leaves every earlier step as it was, and every pass note
\* shows, at any later time, the overlay of the stage that produced it.
C20_StepsKeepDisplay ==
    /\ [](\A i \in 1..Len(analysis_steps) :
              PassNoteAt(i) =>
                  analysis_steps[i].tex_display.overlay = StageOverlay(analysis_steps[i].msg))
    /\ [][pc # "idle" =>
              /\ Len(analysis_steps') >= Len(analysis_steps)
              /\ SubSeq(analysis_steps', 1, Len(analysis_steps)) = analysis_steps]_vars

\* the four pass notes are in the trail, each with its own overlay, after
\* clear-before-draw and pixel history moved the shared display on
C20_Witness ==
    /\ pc = "over"
    /\ \A n \in 1..Len(PassNotes) : Count(PassNotes[n]) = 1
    /\ tex_display.overlay = "Drawcall"
    /\ \A i \in 1..Len(analysis_steps) :
           PassNoteAt(i) => analysis_steps[i].tex_display # tex_display

\* the optional references of a step that are populated
Populated(step) ==
    {r \in {"tex_display", "pixel_history", "pipe_stage", "mesh_view"} :
        \/ r = "tex_display" /\ step.tex_display.resourceId # NullRes
        \/ r = "pixel_history" /\ step.pixel_history.id # NullRes
        \/ r = "pipe_stage" /\ step.pipe_stage # "ComputeShader"
        \/ r = "mesh_view" /\ step.mesh_view # "Count"}
ShownStep == results[cur_result + 1]

\* C21: the step on display has details exactly when one of its optional
\* references is populated, and 'Show More Info' is enabled for it exactly
\* when goto_details routes it to one of the four viewers.
C21_DetailsIffRouted ==
    results # <<>> =>
        /\ has_details(ShownStep) <=> Populated(ShownStep) # {}
        /\ showDetails <=> DetailsViewer(ShownStep) \in {"pipeline", "texture", "mesh", "history"}
        /\ showDetails <=> has_details(ShownStep)

\* the second step of a trail, with only its mesh stage set, was sent to the
\* mesh viewer
C21_Witness ==
    /\ Len(results) = 2 /\ cur_result = 1
    /\ Populated(ShownStep) = {"mesh_view"}
    /\ showDetails /\ viewer = "mesh"

\* where the replay is when query i of the run is issued: at the target of
\* the last seek before it, at the analysed event when there is none
PosAt(i) ==
    LET seeks == {j \in 1..(i - 1) : queries[j].kind = "seek"}
    IN IF seeks = {} THEN eid ELSE queries[Max(seeks)].at
OracleKinds == {"overlay", "minmax", "histogram", "history"}

\* C22: every overlay render, min/max, histogram and pixel-history query is
\* issued with the replay at the analysed event; a seek away from it is
\* followed by the read of the cleared pixel only, then by the seek back.
C22_QueriesAtAnalysedEvent ==
    pc # "idle" =>
        \A i \in 1..Len(queries) :
            /\ queries[i].kind \in OracleKinds => PosAt(i) = eid
            /\ (queries[i].kind = "seek" /\ queries[i].at # eid) =>
                   \E j \in (i + 1)..Len(queries) :
                       /\ queries[j].kind = "seek" /\ queries[j].at = eid
                       /\ \A k \in (i + 1)..(j - 1) : queries[k].kind = "pick"

\* a run sought to the clear, read the cleared pixel there, came back and
\* then ran pixel history
C22_Witness ==
    /\ pc = "over"
    /\ \E i \in 1..Len(queries) :
           /\ queries[i].kind = "pick" /\ PosAt(i) # eid
           /\ \E j \in (i + 1)..Len(queries) : queries[j].kind = "history" /\ PosAt(j) = eid

\* C23 as stated: every run terminates, so no run is ever inside a loop that
\* has no exit; the position-attribute scan `while offs + elem_size <=
\* len(data): ... offs += vb.byteStride` is such a loop when the stride is 0.
C23_EveryRunTerminates == pc # "hung"

\* the steps of the face checks that name a single face
SingleFaceMessages ==
    {n \o t : n \in ImpossibleNames \cup {"StencilNotEqual"},
              t \in {"/front face test", "/back face test"}}
\* the stencil states that differ from st in the culled face only
CulledFaceVaried(st) ==
    IF st.cullMode = "Front" THEN {[st EXCEPT !.front = f] : f \in Faces}
    ELSE IF st.cullMode = "Back" THEN {[st EXCEPT !.back = f] : f \in Faces}
    ELSE {st}

\* C24: with cull mode Front (Back) the stencil stage of the walk gives the
\* same outcome for every stencil state of the front (back) face, and the
\* trail holds no step that names a single face.
C24_CulledFaceIrrelevant ==
    (RunOver /\ Ran("check_failed_stencil") /\ cap.st.cullMode \in {"Front", "Back"}) =>
        /\ \A st2 \in CulledFaceVaried(cap.st) :
               OnscreenStencil([cap EXCEPT !.st = st2], eid) = OnscreenStencil(cap, eid)
        /\ \A i \in 1..Len(analysis_steps) : analysis_steps[i].msg \notin SingleFaceMessages

\* front faces culled, the bound front state passable and the back state
\* Never: the run stopped on the 'test' step, not on a single-face advisory
C24_Witness ==
    /\ pc = "post" /\ Ran("check_failed_stencil")
    /\ cap.st.cullMode = "Front" /\ cap.st.stencilEnable
    /\ IsNever(cap.st.back) /\ ~IsNever(cap.st.front)
    /\ Last(analysis_steps).msg = "StencilNever/test"

NotEqualMessages == {"StencilNotEqual" \o t : t \in {"/test", "/front face test", "/back face test"}}
\* an effective face compares with NotEqual and no impossible-configuration
\* predicate holds on either effective face
NotEqualCase ==
    /\ FaceChecksRan
    /\ \/ EffectiveFront(cap.st).function = "NotEqual"
       \/ EffectiveBack(cap.st).function = "NotEqual"
    /\ \A name \in ImpossibleNames :
           ~Impossible(name, EffectiveFront(cap.st)) /\ ~Impossible(name, EffectiveBack(cap.st))

\* C25 as stated: in that case the trail holds a 'set to Not Equal' step with
\* further steps after it, and the walk went on to the previous-contents
\* check; no run that ended by AnalysisFinished ends on a 'Not Equal' step.
C25_NotEqualAdvisory ==
    /\ NotEqualCase =>
           /\ \E i \in 1..(Len(analysis_steps) - 1) :
                  analysis_steps[i].msg \in NotEqualMessages
           /\ Ran("check_previous_depth_stencil")
    /\ (RunOver /\ ended = "raise" /\ analysis_steps # <<>>) =>
           Last(analysis_steps).msg \notin NotEqualMessages

\* the previous-contents check ran with a depth-stencil target bound and did
\* not stop on the cleared value
PreviousCheckWentOn ==
    /\ RunOver /\ Ran("check_previous_depth_stencil") /\ cap.depthBound
    /\ Count("ClearImpossibleToPass") = 0 /\ Count("ClearCantCompare") = 0

\* C26 as stated: such a run ends its trail on the 'failing the test normally'
\* note, shown with the Depth overlay in depth mode and the Stencil overlay in
\* stencil mode, and the generic inconclusive step is not in the trail.
C26_EndsFailingNormally ==
    PreviousCheckWentOn =>
        /\ analysis_steps # <<>>
        /\ Last(analysis_steps).msg = "FailingNormally"
        /\ Last(analysis_steps).tex_display.overlay =
               (IF Ran("check_failed_depth") THEN "Depth" ELSE "Stencil")
        /\ Count("CouldNotProve") = 0

\* whether a fragment of depth d passes compare function func against the
\* stored depth cc
DepthPasses(func, d, cc) ==
    CASE func = "Less" -> d < cc
      [] func = "Greater" -> d > cc
      [] func = "LessEqual" -> d <= cc
      [] func = "GreaterEqual" -> d >= cc
      [] OTHER -> TRUE
\* some depth of the viewport depth range passes against the cleared value
SomeDepthPasses ==
    LET lo == Least(cap.viewport.minDepth, cap.viewport.maxDepth)
        hi == Greatest(cap.viewport.minDepth, cap.viewport.maxDepth)
    IN \E d \in lo..hi : DepthPasses(cap.d.depthFunction, d, cap.p.clear_color)

\* C27 as stated: in depth mode the previous-contents check ends on
\* 'impossible to pass' or 'can't compare' only when there is a prior clear
\* and no depth of the viewport depth range passes the compare function
\* against the cleared value.
C27_ClearTerminalOnlyIfImpossible ==
    (RunOver /\ Ran("check_failed_depth") /\ Ran("check_previous_depth_stencil")
        /\ Count("ClearImpossibleToPass") + Count("ClearCantCompare") > 0) =>
            /\ PriorClears(cap.p.usage, eid) # <<>>
            /\ ~SomeDepthPasses

ClearScissorMessages ==
    {"ClearScissorEmpty", "ClearScissorOutsideTarget", "ClearScissorSmallerThanViewport"}
\* the clear's scissor rectangle contains the viewport rectangle of the draw
ClearScissorContainsViewport ==
    LET s == cap.p.clearScissor
        v == cap.viewport
    IN /\ s.x <= v.x /\ s.y <= v.y
       /\ v.x + v.width <= s.x + s.width
       /\ v.y + v.height <= s.y + s.height

\* C28 as stated: the 'scissor rect is smaller than the current viewport'
\* step is in the trail only on OpenGL, with the clear's scissor enabled and
\* its rectangle not containing the viewport; no clear-scissor step is the
\* last step of a run ended by AnalysisFinished.
C28_SmallerOnlyIfNotContained ==
    /\ Count("ClearScissorSmallerThanViewport") > 0 =>
           /\ cap.api = "OpenGL" /\ cap.p.clearScissor.enabled
           /\ ~ClearScissorContainsViewport
    /\ (RunOver /\ ended = "raise" /\ analysis_steps # <<>>) =>
           Last(analysis_steps).msg \notin ClearScissorMessages

\* viewport 0 is at most one pixel wide or high
ViewportDegenerate == cap.viewport.width <= 1 \/ Abs(cap.viewport.height) <= 1
\* the viewport rectangle lies entirely beyond one side of the first target
ViewportOutside ==
    LET v == cap.viewport
        top == Least(v.y, v.y + v.height)
        bottom == Greatest(v.y, v.y + v.height)
    IN \/ v.x + v.width <= 0 \/ v.x >= OffscreenOf(cap).tw
       \/ bottom <= 0 \/ top >= OffscreenOf(cap).th

\* C29 as stated: in the offscreen branch a degenerate viewport, or one lying
\* entirely outside the first target on the left, top, right or bottom, ends
\* the run on a step tagged with the viewport/scissor stage; any other
\* viewport gets the 'looks normal' note and the walk goes on.
C29_ViewportTerminal ==
    (RunOver /\ Ran("check_offscreen")) =>
        IF ViewportDegenerate \/ ViewportOutside
        THEN /\ ended = "raise"
             /\ Last(analysis_steps).msg \in {"ViewportDegenerate", "ViewportOutOfBounds"}
             /\ Last(analysis_steps).pipe_stage = "ViewportsScissors"
        ELSE /\ Count("ViewportNormal") = 1
             /\ Last(analysis_steps).msg # "ViewportNormal"

\* the finite NDC x and y of the gathered vertices, their bounds and the area
\* the bounds cover when projected onto viewport 0 (in 1/400 of a pixel)
NdcX == FiniteComponent(vert_ndc_of(Gathered), 1)
NdcY == FiniteComponent(vert_ndc_of(Gathered), 2)
NdcClassified == NdcStageReached /\ NdcX # {} /\ NdcY # {}
NdcArea == Area400(cap.viewport, <<Min(NdcX), Min(NdcY)>>, <<Max(NdcX), Max(NdcY)>>)
NdcInClip == Min(NdcX) >= -10 /\ Min(NdcY) >= -10 /\ Max(NdcX) <= 10 /\ Max(NdcY) <= 10
NdcBeyondGuardBand ==
    Max({Abs(Min(NdcX)), Abs(Min(NdcY)), Abs(Max(NdcX)), Abs(Max(NdcY))}) >= GuardBandTenth
\* the classification step is in the trail, a validation of the vertex input
\* followed it, and the 'reasonable but off-screen' conclusion is not there
DeferredWith(msg) ==
    /\ Count(msg) = 1 /\ Ran("check_invalid_verts")
    /\ Count("ReasonableButOffscreen") = 0
ConcludedOffscreen ==
    /\ ended = "raise" /\ Last(analysis_steps).msg = "ReasonableButOffscreen"
    /\ ~Ran("check_invalid_verts")

NdcClasses == {"AreaBelowOnePixel", "ReasonableButOffscreen", "PositionsInvalidOrDegenerate"}
ClassOf(o) == {o.steps[i].msg : i \in 1..Len(o.steps)} \cap NdcClasses
\* the loaded capture with the height of viewport 0 negated
HeightNegated == [cap EXCEPT !.viewport.height = 0 - cap.viewport.height]

\* C31 as stated: for a viewport of negative height the NDC stage of the
\* offscreen branch puts the draw in the same class as for the same NDC bounds
\* with the viewport of the opposite height.
C31_HeightSignIrrelevant ==
    (NdcClassified /\ cap.viewport.height < 0) =>
        ClassOf(Offscreen(cap, eid)) = ClassOf(Offscreen(HeightNegated, eid))

MaskMessages ==
    {"AllMasksZeroDepthWrites", "AllMasksZeroNoDepthWrites", "SomeMasksZero", "MasksNormal"}
MaskStageReached == \E i \in 1..Len(analysis_steps) : analysis_steps[i].msg \in MaskMessages
\* the blend slots of the capture whose colour target is bound, and those without one
BoundColourSlots ==
    {i \in 1..Len(cap.ss.blends) :
        i <= Len(cap.outputTargets) /\ cap.outputTargets[i] # NullRes}
UnboundColourSlots == (1..Len(cap.ss.blends)) \ BoundColourSlots
AllBoundZero == \A i \in BoundColourSlots : cap.ss.blends[i].writeMask = 0
AllBoundEnabled == \A i \in BoundColourSlots : cap.ss.blends[i].writeMask # 0
DepthWritesOn == cap.d.depthEnable /\ cap.ss.depthWrites
MaskStep == CHOOSE i \in 1..Len(analysis_steps) : analysis_steps[i].msg \in MaskMessages
MaskStepTerminal == MaskStep = Len(analysis_steps) /\ ended = "raise"

RawIndices ==
    LET n == Least(Len(cap.iv.ibdata), cap.drawcall.numIndices)
    IN {cap.iv.ibdata[i] : i \in 1..n}
\* the highest vertex index the draw fetches
HighestVertex ==
    IF cap.drawcall.indexed THEN Max(RawIndices) + cap.drawcall.baseVertex
    ELSE cap.drawcall.vertexOffset + cap.drawcall.numIndices - 1
HighestInstance == cap.drawcall.instanceOffset + cap.drawcall.numInstances - 1
\* the used attributes of the capture that read a bound vertex buffer
CheckedAttrs ==
    {n \in 1..Len(cap.iv.vsinputs) :
        /\ cap.iv.vsinputs[n].used
        /\ cap.iv.vsinputs[n].vertexBuffer < Len(cap.iv.vbuffers)
        /\ cap.iv.vbuffers[cap.iv.vsinputs[n].vertexBuffer + 1].resourceId # NullRes}
\* attribute n read at element `at` of its buffer ends beyond the bytes available
Exceeds(n, at) ==
    LET attr == cap.iv.vsinputs[n]
        vb == cap.iv.vbuffers[attr.vertexBuffer + 1]
    IN attr.byteOffset + at * vb.byteStride + attr.elemSize
           > AvailableBytes(vb.byteSize, vb.byteOffset, cap.iv.vbBufLen[attr.vertexBuffer + 1])
Advised(o, msg, n) ==
    \E i \in 1..Len(o.steps) :
        o.steps[i].msg = msg /\ o.steps[i].args = <<n, cap.iv.vsinputs[n].vertexBuffer>>
\* the draws whose fetched indices are all plain indices
PlainIndices ==
    cap.drawcall.indexed =>
        /\ RawIndices # {}
        /\ ~(cap.iv.restartEnabled /\ cap.iv.strip /\ cap.iv.restartIdx \in RawIndices)

\* C33: when check_invalid_verts runs to its end, a used attribute of a bound
\* buffer gets the out-of-bounds advisory iff byteOffset + V * stride +
\* element size exceeds the bytes available, V being the highest vertex
\* fetched (largest raw index plus baseVertex, or vertexOffset + numIndices - 1)
\* for a per-vertex attribute and instanceOffset + numInstances - 1 for a
\* per-instance one.
C33_OutOfBoundsIffExceeds ==
    (Ran("check_invalid_verts") /\ InvalidVertsOutcome.end = "return" /\ PlainIndices) =>
        \A n \in CheckedAttrs :
            IF cap.iv.vsinputs[n].perInstance
            THEN Advised(InvalidVertsOutcome, "PerInstanceAttributeOutOfBounds", n)
                     <=> Exceeds(n, HighestInstance)
            ELSE Advised(InvalidVertsOutcome, "PerVertexAttributeOutOfBounds", n)
                     <=> Exceeds(n, HighestVertex)

\* an indexed draw with a valid index buffer whose fetched indices hold a
\* restart index, or that has no index bytes to fetch
RestartFetched ==
    cap.iv.restartEnabled /\ cap.iv.strip /\ cap.iv.restartIdx \in RawIndices
NoIndexBytes == IndicesOf(cap.drawcall, cap.iv) = <<>>

\* C34: on an indexed draw whose fetched indices hold restart indices, or that
\* has no index bytes available, check_invalid_verts does not fault: the
\* largest index is taken over the indices that are no restart index and the
\* validation runs to its end.
C34_RestartDoesNotFault ==
    (/\ Ran("check_invalid_verts") /\ cap.iv.vsBound /\ cap.drawcall.indexed
     /\ cap.iv.ib.resourceId # NullRes /\ cap.iv.ib.byteStride # 0
     /\ (RestartFetched \/ NoIndexBytes)) =>
        /\ InvalidVertsOutcome.end = "return"
        /\ RunOver => ended # "fault"

\* the vertices of one fetch whose 16 position bytes lie inside the fetched
\* data of numIndices strides
InsideFetched ==
    {v \in 0..(Len(cap.postvs_positions) - 1) :
        v * cap.vertexByteStride + 16 <= cap.vertexByteStride * Len(cap.postvs_positions)}
Instances == IF cap.drawcall.numInstances > 1 THEN cap.drawcall.numInstances ELSE 1

\* C35: the gathered post-transform positions hold, for every instance in
\* order, every vertex v < numIndices with v * stride + 16 <= len(data), in
\* vertex order.
C35_EveryFetchedVertexGathered ==
    (pc \notin {"idle", "hung"} /\ ~SetupFaults(cap)) =>
        /\ Len(Gathered) = Instances * Cardinality(InsideFetched)
        /\ \A k \in 1..Len(Gathered) :
               \E v \in InsideFetched :
                   /\ Gathered[k] = cap.postvs_positions[v + 1]
                   /\ ((k - 1) % Cardinality(InsideFetched)) + 1
                          = Cardinality({u \in InsideFetched : u <= v})

\* the pixel-history queries of the run so far
HistoryQueries == Cardinality({i \in 1..Len(queries) : queries[i].kind = "history"})
\* the last record of the history of pixel x is a fragment of the analysed
\* event that passed
LastPassed(x) ==
    LET h == HistoryAt(cap.ph[x], eid)
    IN h # <<>> /\ Last(h).eventId = eid /\ Last(h).passed
\* the sampled pixels of the onscreen branch, and the first of them that passed
Sampled == 1..(IF Len(covered_list) < 5 THEN Len(covered_list) ELSE 5)
PassingSamples == {k \in Sampled : LastPassed(covered_list[k])}

\* C36: a run that took the failed depth or stencil path asks for at most one
\* pixel history; any other run asks for at most min(5, covered pixels), one
\* per sampled pixel up to and including the first whose last record is a
\* passing fragment of the analysed event.
C36_HistoryQueriesBounded ==
    /\ HistoryQueries <= 5
    /\ Ran("check_previous_depth_stencil") => HistoryQueries <= 1
    /\ (~Ran("check_previous_depth_stencil") /\ pc # "pixel_history") =>
           HistoryQueries = IF PassingSamples = {} THEN Cardinality(Sampled)
                            ELSE Min(PassingSamples)
C36_Witness ==
    /\ pc = "over" /\ Len(covered_list) = MaxCovered
    /\ PassingSamples # {} /\ Min(PassingSamples) \in 2..4
    /\ HistoryQueries = Min(PassingSamples)
\* more pixels covered than are sampled, none passing
C36_WitnessCapped ==
    pc = "over" /\ Len(covered_list) > 5 /\ PassingSamples = {} /\ HistoryQueries = 5

\* the scissor rectangle lies wholly beyond one of the four sides of the viewport
ScissorDisjoint ==
    LET v == cap.viewport
        s == cap.scissor
    IN \/ s.x + s.width < v.x
       \/ s.x > v.x + v.width
       \/ s.y + s.height < v.y
       \/ s.y > v.y + v.height

\* C37: with a scissor rectangle that is not empty, check_failed_scissor ends
\* on 'completely outside the viewport' iff the scissor rectangle lies beyond
\* the viewport on one of its four sides, and on the generic 'outside of the
\* scissor region' step otherwise.
C37_OutsideIffDisjoint ==
    (Ran("check_failed_scissor") /\ cap.scissor.width # 0 /\ cap.scissor.height # 0) =>
        /\ Last(analysis_steps).msg \in {"ScissorOutsideViewport", "ScissorClipped"}
        /\ Last(analysis_steps).msg = "ScissorOutsideViewport" <=> ScissorDisjoint

\* the onscreen branch asked for a pixel history
OnscreenHistoryAsked ==
    HistoryQueries >= 1 /\ ~Ran("check_previous_depth_stencil") /\ pc # "pixel_history"

\* C38: the pixel-history queries of the onscreen branch name the first target
\* with a subresource of that same target: its mip and slice, and a sample
\* the target has.
C38_SubresourceOfQueriedTarget ==
    OnscreenHistoryAsked =>
        LET a == PixelHistoryArgs(cap, tex_display)
        IN /\ a.subresourceOf = a.target
           /\ a.sample < cap.textures[a.target].msSamp

\* the analyses started whose finish_analysis has not run: queued on the replay
\* thread, running there, or posted to the UI thread
Unfinished == Len(rq) + Len(uiQueue) + (IF pc \in {"idle", "over"} THEN 0 ELSE 1)

\* C39: the trail that the next finish_analysis delivers is the trail of the
\* event stored in the window's eid, and between start_analysis and its
\* finish_analysis no other analysis is under way.
C39_OneAnalysisAtATime ==
    /\ Unfinished <= 1
    /\ uiQueue # <<>> => Head(uiQueue).eid = window_eid

\* C40: whenever the result list is not empty the current step index lies in
\* 0 .. len(results) - 1, and a press of the previous or next button changes
\* it by at most one.
C40_StepIndexInRange ==
    /\ [](results # <<>> => (0 <= cur_result /\ cur_result <= Len(results) - 1))
    /\ [][(goto_previous_step \/ goto_next_step) =>
              (cur_result' - cur_result) \in {-1, 0, 1}]_vars
\* the last of at least three steps is on display, reached with the next button
C40_Witness ==
    /\ Len(results) >= 3 /\ cur_result = Len(results) - 1
    /\ pc = "idle" /\ uiQueue = <<>>

====
